---- MODULE Spec2Model ----
(***************************************************************************)
(* A model of serde_mosaic's DatabaseManager: the directory store, the     *)
(* thread-local write / read contexts, the RwInfo accumulator, the Arc     *)
(* cache and the link hooks of attributes.rs.  Every top-level call of the *)
(* manager runs synchronously to completion, so each one is one action.    *)
(***************************************************************************)
EXTENDS Integers, Sequences, FiniteSets, TLC

VARIABLES
    files,          \* the store: path -> content of the file at that path
    cache,          \* DatabaseManager.cache: TypeId -> (name -> CacheEntry)
    heap,           \* Arc allocations: heap[h] is the value behind handle h
    WRITE_CONTEXT,  \* thread_local WRITE_CONTEXT
    READ_CONTEXT,   \* thread_local READ_CONTEXT
    RW_INFO,        \* thread_local RW_INFO
    ret,            \* the last call, its arguments and what it returned
    threads         \* the running thread, the thread-locals and the manager
                    \* of every other thread, the call each thread is in

vars == <<files, cache, heap, WRITE_CONTEXT, READ_CONTEXT, RW_INFO, ret, threads>>

\* Option::None, for options of records; an absent u32 is NoChecksum, an
\* absent name is NoName and an absent error is NoError
None == [none |-> TRUE]
NoChecksum == <<>>
NoName == <<>>
NoError == "none"

\* F applied to the value of v, with v evaluated once
Bind(v, F(_)) == CHOOSE r \in {F(x) : x \in {v}} : TRUE

----------------------------------------------------------------------------
(* Names are byte strings (OsString).                                      *)

nameA == <<97>>
nameB == <<98>>
nameS == <<115>>
nameT == <<116>>
nameU == <<117>>
Dot == <<46>>
Underscore == <<95>>

\* SerdeYaml::file_ext: "yaml"
file_ext == <<121, 97, 109, 108>>

RECURSIVE Digits(_)
\* format!("{}", counter): the decimal digits of counter
Digits(n) == IF n < 10 THEN <<48 + n>> ELSE Digits(n \div 10) \o <<48 + (n % 10)>>

----------------------------------------------------------------------------
(* The entity types of tests/utilities.rs.  An entity is a record holding  *)
(* its struct fields, plus "type" for its static Rust type.                *)

Scalar(f) == [fname |-> f, kind |-> "scalar", ty |-> ""]
LinkField(f, t) == [fname |-> f, kind |-> "link", ty |-> t]
ArcField(f, t) == [fname |-> f, kind |-> "arc", ty |-> t]
OptLinkField(f, t) == [fname |-> f, kind |-> "opt_link", ty |-> t]
OptArcField(f, t) == [fname |-> f, kind |-> "opt_arc", ty |-> t]

\* struct fields in declaration order (the order serde visits them)
Fields(t) ==
    CASE t = "Material" -> <<Scalar("id"), Scalar("name")>>
      [] t = "Shovel" -> <<Scalar("name"), ArcField("shaft", "Material"),
                           LinkField("blade", "Material")>>
      [] t = "Stool" -> <<Scalar("name"), ArcField("leg_1", "Material"),
                          ArcField("leg_2", "Material")>>
      [] t = "User" -> <<Scalar("name"), ArcField("shovel", "Shovel")>>
      [] t = "Cup" -> <<Scalar("name"), LinkField("material", "Material")>>
      [] t = "Shelf" -> <<Scalar("name"), OptArcField("shovel", "Shovel")>>
      [] t = "Cupboard" -> <<Scalar("name"), OptLinkField("cup", "Cup")>>

FieldNames(t) == {Fields(t)[i].fname : i \in 1..Len(Fields(t))}

Material(id, name) == [type |-> "Material", id |-> id, name |-> name]
Shovel(name, shaft, blade) ==
    [type |-> "Shovel", name |-> name, shaft |-> shaft, blade |-> blade]
Stool(name, leg_1, leg_2) ==
    [type |-> "Stool", name |-> name, leg_1 |-> leg_1, leg_2 |-> leg_2]
User(name, shovel) == [type |-> "User", name |-> name, shovel |-> shovel]
Cup(name, material) == [type |-> "Cup", name |-> name, material |-> material]
\* an Option field holds None or the value itself
Shelf(name, shovel) == [type |-> "Shelf", name |-> name, shovel |-> shovel]
Cupboard(name, cup) == [type |-> "Cupboard", name |-> name, cup |-> cup]

\* type_name::<T>(): the folder of a type
type_name(instance) == instance.type

\* DatabaseEntry::name
EntryName(instance) == instance.name

----------------------------------------------------------------------------
(* Paths, file contents and checksums.                                     *)

\* DatabaseManager::full_path_unchecked: dir/<type_name>/<name>.<ext>
full_path_unchecked(ty, name) ==
    [dir |-> ty, file |-> IF file_ext # <<>> THEN name \o Dot \o file_ext ELSE name]

\* Path::exists
exists(fs, path) == path \in DOMAIN fs

EmptyMap == [x \in {} |-> None]

\* a test that takes every map with a name for a link
IsLinkDoc_loose(d) == "name" \in DOMAIN d

\* DatabaseLink's Deserialize accepts the map (deny_unknown_fields; name is
\* required, checksum has a default)
IsLinkDoc(d) == DOMAIN d \subseteq {"name", "checksum"} /\ "name" \in DOMAIN d

\* the checksum of a DatabaseLink document (serde default: None when missing)
LinkChecksum(d) == IF "checksum" \in DOMAIN d THEN d.checksum ELSE NoChecksum

\* the document of a serialized Option::None (YAML null)
Null == [null |-> TRUE]

\* a u32 is kept as its two 16-bit halves <<high, low>>
ChecksumBytes(c) ==
    IF c = NoChecksum THEN <<126>>
    ELSE <<c[1] \div 256, c[1] % 256, c[2] \div 256, c[2] % 256>>

RECURSIVE BodyBytes(_, _, _)
\* SerdeYaml::serialize: the bytes of the fields i.. of a struct body
BodyBytes(t, body, i) ==
    IF DOMAIN body # FieldNames(t) THEN <<63, Cardinality(DOMAIN body)>>
    ELSE IF i > Len(Fields(t)) THEN <<>>
    ELSE LET f == Fields(t)[i]
             v == body[f.fname]
             here == IF f.kind = "scalar"
                     THEN (IF f.fname = "id" THEN <<v>> ELSE v \o <<10>>)
                     ELSE IF v = Null THEN <<126>>
                     ELSE IF IsLinkDoc(v)
                     THEN <<38>> \o v.name \o <<10>> \o ChecksumBytes(LinkChecksum(v))
                     ELSE <<123>> \o BodyBytes(f.ty, v, 1) \o <<125>>
         IN here \o BodyBytes(t, body, i + 1)

Garbage == [tag |-> "?", body |-> EmptyMap]

TagBytes(tag) ==
    CASE tag = "Material" -> <<77>>
      [] tag = "Shovel" -> <<83, 104>>
      [] tag = "Stool" -> <<83, 116>>
      [] tag = "User" -> <<85>>
      [] tag = "Cup" -> <<67>>
      [] tag = "Shelf" -> <<83, 102>>
      [] tag = "Cupboard" -> <<67, 98>>
      [] OTHER -> <<63>>

\* the bytes of a whole file (typetag: the type tag, then the struct body)
FileBytes(doc) ==
    IF doc.tag \in {"Material", "Shovel", "Stool", "User", "Cup", "Shelf", "Cupboard"}
    THEN TagBytes(doc.tag) \o BodyBytes(doc.tag, doc.body, 1)
    ELSE TagBytes(doc.tag)

AdlerMod == 65521

RECURSIVE AdlerPass(_, _)
\* the two running sums <<b, a>> of Adler-32 after the first n bytes
AdlerPass(bytes, n) ==
    IF n = 0 THEN <<0, 1>>
    ELSE LET p == AdlerPass(bytes, n - 1)
             a == (p[2] + bytes[n]) % AdlerMod
         IN <<(p[1] + a) % AdlerMod, a>>

\* adler32::adler32 over the bytes, as <<high half, low half>>
adler32(bytes) == AdlerPass(bytes, Len(bytes))

\* checksum(path): None when the file cannot be opened
checksum(fs, path) ==
    IF exists(fs, path) THEN adler32(FileBytes(fs[path])) ELSE NoChecksum

----------------------------------------------------------------------------
(* RwInfo: the thread-local accumulator behind WriteInfo and ReadInfo.     *)

RwInfoDefault ==
    [log |-> FALSE, overwritten_files |-> <<>>, kept_files |-> <<>>,
     created_files |-> <<>>, checksum_mismatch |-> <<>>]

set_log(rw, log) == [rw EXCEPT !.log = log]

log_overwritten_file_path(rw, path) ==
    IF rw.log THEN [rw EXCEPT !.overwritten_files = Append(@, path)] ELSE rw

\* a log that puts the newest path first
log_created_file_path_front(rw, path) ==
    IF rw.log THEN [rw EXCEPT !.created_files = <<path>> \o @] ELSE rw

log_created_file_path(rw, path) ==
    IF rw.log THEN [rw EXCEPT !.created_files = Append(@, path)] ELSE rw

log_kept_file_path(rw, path) ==
    IF rw.log THEN [rw EXCEPT !.kept_files = Append(@, path)] ELSE rw

log_checksum_mismatch(rw, val) ==
    IF rw.log THEN [rw EXCEPT !.checksum_mismatch = Append(@, val)] ELSE rw

\* RwInfo::take_write_info: the three path lists are moved out
take_write_info(rw) ==
    [info |-> [overwritten_files |-> rw.overwritten_files,
               created_files |-> rw.created_files,
               kept_files |-> rw.kept_files],
     rw |-> [rw EXCEPT !.overwritten_files = <<>>, !.created_files = <<>>,
                       !.kept_files = <<>>]]

\* RwInfo::take_read_info: the mismatch list is moved out
take_read_info(rw) ==
    [info |-> [checksum_mismatch |-> rw.checksum_mismatch],
     rw |-> [rw EXCEPT !.checksum_mismatch = <<>>]]

----------------------------------------------------------------------------
(* The write path: WriteOptions, the collision policies, the link hook and *)
(* WriteContext::write.  A run is threaded through                         *)
(* st = [files, rw, fail, trace]; fail says which file operation of the    *)
(* call the file system refuses, and trace lists, in order and for         *)
(* inspection, the calls of WriteContext::write that came to their file:   *)
(* the path, the serialized data, whether the file was kept, and whether   *)
(* the call returned Ok (done).                                            *)

\* fail.create = k > 0: the k-th File::create of the call fails;
\* fail.write_all = k > 0: the k-th write_all fails, and then fail.remove
\* says whether the remove_file of the cleanup fails as well
NoFail == [create |-> 0, write_all |-> 0, remove |-> FALSE]

\* what File::create leaves at the path when write_all stops partway
PartialData == [tag |-> "~", body |-> EmptyMap]

CountDown(k) == IF k > 1 THEN k - 1 ELSE 0

\* WriteOptions::name: the alias of the instance's name, or the name itself
WriteOptions_name(write_options, instance) ==
    IF EntryName(instance) \in DOMAIN write_options.alias
    THEN write_options.alias[EntryName(instance)]
    ELSE EntryName(instance)

\* a link that drops the checksum
DatabaseLink_new_bare(instance, cks) ==
    [name |-> EntryName(instance), checksum |-> NoChecksum]

\* DatabaseLink::new
DatabaseLink_new(instance, cks) == [name |-> EntryName(instance), checksum |-> cks]

\* name, then "." and the extension when there is one
WithExt(name) == IF file_ext # <<>> THEN name \o Dot \o file_ext ELSE name

\* a probe that takes the first trial name without looking at the store
AdjustProbe_unchecked(fs, folder_dir, name, counter) ==
    [dir |-> folder_dir, file |-> WithExt(name \o Underscore \o Digits(counter))]

RECURSIVE AdjustProbe(_, _, _, _)
\* the probe loop of NameCollisions::AdjustName, from counter on
AdjustProbe(fs, folder_dir, name, counter) ==
    LET trial_file_path ==
            [dir |-> folder_dir, file |-> WithExt(name \o Underscore \o Digits(counter))]
    IN IF ~exists(fs, trial_file_path) THEN trial_file_path
       ELSE AdjustProbe(fs, folder_dir, name, counter + 1)

\* an Overwrite that logs every path as created
CollisionOverwrite_created(rw, full_file_path, file_exists) ==
    [rw |-> log_created_file_path(rw, full_file_path),
     file_path |-> full_file_path, early |-> FALSE]

\* an Overwrite that stores under a name of its own when the file exists
CollisionOverwrite_aside(rw, full_file_path, file_exists) ==
    IF file_exists
    THEN LET aside == [full_file_path EXCEPT !.file = @ \o Underscore]
         IN [rw |-> log_created_file_path(rw, aside),
             file_path |-> aside, early |-> FALSE]
    ELSE [rw |-> log_created_file_path(rw, full_file_path),
          file_path |-> full_file_path, early |-> FALSE]

\* NameCollisions::Overwrite
CollisionOverwrite(rw, full_file_path, file_exists) ==
    [rw |-> IF file_exists THEN log_overwritten_file_path(rw, full_file_path)
            ELSE log_created_file_path(rw, full_file_path),
     file_path |-> full_file_path, early |-> FALSE]

\* a KeepExisting that logs an existing file as kept and writes it all the same
CollisionKeepExisting_writes(rw, full_file_path, file_exists) ==
    [rw |-> IF file_exists THEN log_kept_file_path(rw, full_file_path)
            ELSE log_created_file_path(rw, full_file_path),
     file_path |-> full_file_path, early |-> FALSE]

\* NameCollisions::KeepExisting
CollisionKeepExisting(rw, full_file_path, file_exists) ==
    IF file_exists
    THEN [rw |-> log_kept_file_path(rw, full_file_path),
          file_path |-> full_file_path, early |-> TRUE]
    ELSE [rw |-> log_created_file_path(rw, full_file_path),
          file_path |-> full_file_path, early |-> FALSE]

\* NameCollisions::AdjustName
CollisionAdjustName(fs, rw, folder_dir, name, full_file_path, file_exists) ==
    IF file_exists
    THEN LET trial_file_path == AdjustProbe(fs, folder_dir, name, 0)
         IN [rw |-> log_created_file_path(rw, trial_file_path),
             file_path |-> trial_file_path, early |-> FALSE]
    ELSE [rw |-> log_created_file_path(rw, full_file_path),
          file_path |-> full_file_path, early |-> FALSE]

RECURSIVE WriteContext_write(_, _, _)
RECURSIVE SerializeFields(_, _, _, _, _)
RECURSIVE serialize_link(_, _, _)
RECURSIVE serialize_opt_link(_, _, _)

\* a serialize_link that writes a file and a link whatever the write mode
serialize_link_always(context, instance, st) ==
    IF context = None
    THEN SerializeFields(context, instance, st, 1, EmptyMap)
    ELSE Bind(WriteContext_write(context, instance, st), LAMBDA w :
            IF ~w.ok
            THEN [st |-> w.st, ok |-> FALSE, doc |-> None]
            ELSE [st |-> w.st, ok |-> TRUE,
                  doc |-> DatabaseLink_new(instance, checksum(w.st.files, w.path))])

\* a serialize_link whose link carries the checksum the target's path had
\* before the nested write
serialize_link_early(context, instance, st) ==
    IF context = None
    THEN SerializeFields(context, instance, st, 1, EmptyMap)
    ELSE IF context.write_options.write_mode = "Flat"
    THEN SerializeFields(context, instance, st, 1, EmptyMap)
    ELSE Bind(WriteContext_write(context, instance, st), LAMBDA w :
            IF ~w.ok
            THEN [st |-> w.st, ok |-> FALSE, doc |-> None]
            ELSE [st |-> w.st, ok |-> TRUE,
                  doc |-> DatabaseLink_new(instance, checksum(st.files, w.path))])

\* serialize_link (serialize_arc_link dereferences and forwards to it)
serialize_link(context, instance, st) ==
    IF context = None
    THEN SerializeFields(context, instance, st, 1, EmptyMap)
    ELSE IF context.write_options.write_mode = "Flat"
    THEN SerializeFields(context, instance, st, 1, EmptyMap)
    ELSE Bind(WriteContext_write(context, instance, st), LAMBDA w :
            IF ~w.ok
            THEN [st |-> w.st, ok |-> FALSE, doc |-> None]
            ELSE [st |-> w.st, ok |-> TRUE,
                  doc |-> DatabaseLink_new(instance, checksum(w.st.files, w.path))])

\* an optional link that is never written to a file of its own
serialize_opt_link_inline(context, instance, st) ==
    IF instance # None
    THEN SerializeFields(context, instance, st, 1, EmptyMap)
    ELSE [st |-> st, ok |-> TRUE, doc |-> Null]

\* serialize_opt_link (serialize_opt_arc_link dereferences and does the same)
serialize_opt_link(context, instance, st) ==
    IF instance # None
    THEN serialize_link(context, instance, st)
    ELSE [st |-> st, ok |-> TRUE, doc |-> Null]

\* a serialization under nested writes that each set and clear a context of
\* their own: the fields that follow a link field find no context
SerializeFields_stacked(context, instance, st, i, acc) ==
    IF i > Len(Fields(instance.type))
    THEN [st |-> st, ok |-> TRUE, doc |-> acc]
    ELSE LET f == Fields(instance.type)[i]
         IN IF f.kind = "scalar"
            THEN SerializeFields(context, instance, st, i + 1,
                                 acc @@ (f.fname :> instance[f.fname]))
            ELSE Bind(serialize_link(context, instance[f.fname], st), LAMBDA s :
                    IF ~s.ok THEN s
                    ELSE SerializeFields(None, instance, s.st, i + 1,
                                         acc @@ (f.fname :> s.doc)))

\* the derived Serialize of a struct: its fields from the i-th on, in order
SerializeFields(context, instance, st, i, acc) ==
    IF i > Len(Fields(instance.type))
    THEN [st |-> st, ok |-> TRUE, doc |-> acc]
    ELSE LET f == Fields(instance.type)[i]
         IN IF f.kind = "scalar"
            THEN SerializeFields(context, instance, st, i + 1,
                                 acc @@ (f.fname :> instance[f.fname]))
            ELSE Bind(IF f.kind \in {"opt_link", "opt_arc"}
                      THEN serialize_opt_link(context, instance[f.fname], st)
                      ELSE serialize_link(context, instance[f.fname], st),
                      LAMBDA s :
                    IF ~s.ok THEN s
                    ELSE SerializeFields(context, instance, s.st, i + 1,
                                         acc @@ (f.fname :> s.doc)))

\* a file creation that reports the path and stores nothing
CreateFile_dropped(st, c, data) ==
    [st |-> [st EXCEPT !.rw = c.rw,
                       !.trace = Append(@, [path |-> c.file_path, data |-> data,
                                            kept |-> FALSE, done |-> TRUE])],
     ok |-> TRUE, path |-> c.file_path, err |-> NoError]

\* a cleanup that leaves the file where it is
Cleanup_skipped(fs, file_path) == (file_path :> PartialData) @@ fs

\* the cleanup after a failed write_all: remove_file(&file_path)
Cleanup(fs, file_path) == [q \in DOMAIN fs \ {file_path} |-> fs[q]]

\* WriteContext::write from "Create the corresponding file" on
CreateFile(st, c, data) ==
    LET entry == [path |-> c.file_path, data |-> data, kept |-> FALSE, done |-> TRUE]
    IN IF c.early
       THEN [st |-> [st EXCEPT !.rw = c.rw,
                               !.trace = Append(@, [entry EXCEPT !.kept = TRUE])],
             ok |-> TRUE, path |-> c.file_path, err |-> NoError]
       ELSE IF st.fail.create = 1
       THEN \* File::create fails: nothing is stored
            [st |-> [st EXCEPT !.rw = c.rw, !.fail = NoFail,
                               !.trace = Append(@, [entry EXCEPT !.done = FALSE])],
             ok |-> FALSE, path |-> None, err |-> "CreateFailed"]
       ELSE IF st.fail.write_all = 1
       THEN IF st.fail.remove
            THEN \* write_all fails and remove_file(&file_path)? fails too
                 [st |-> [st EXCEPT !.rw = c.rw, !.fail = NoFail,
                                    !.files = (c.file_path :> PartialData) @@ @,
                                    !.trace = Append(@, [entry EXCEPT !.done = FALSE])],
                  ok |-> FALSE, path |-> None, err |-> "RemoveFailed"]
            ELSE \* write_all fails, the file is removed
                 [st |-> [st EXCEPT !.rw = c.rw, !.fail = NoFail,
                                    !.files = Cleanup((c.file_path :> PartialData) @@ @,
                                                      c.file_path),
                                    !.trace = Append(@, [entry EXCEPT !.done = FALSE])],
                  ok |-> FALSE, path |-> None, err |-> "WriteFailed"]
       ELSE [st |-> [st EXCEPT !.rw = c.rw, !.files = (c.file_path :> data) @@ @,
                               !.fail.create = CountDown(@),
                               !.fail.write_all = CountDown(@),
                               !.trace = Append(@, entry)],
             ok |-> TRUE, path |-> c.file_path, err |-> NoError]

\* WriteContext::write, the match on write_options.name_collisions
ResolveCollision(write_options, instance, st) ==
    LET name == WriteOptions_name(write_options, instance)
        folder_dir == type_name(instance)
        full_file_path == [dir |-> folder_dir, file |-> WithExt(name)]
        file_exists == exists(st.files, full_file_path)
    IN CASE write_options.name_collisions = "Overwrite" ->
              CollisionOverwrite(st.rw, full_file_path, file_exists)
         [] write_options.name_collisions = "KeepExisting" ->
              CollisionKeepExisting(st.rw, full_file_path, file_exists)
         [] write_options.name_collisions = "AdjustName" ->
              CollisionAdjustName(st.files, st.rw, folder_dir, name,
                                  full_file_path, file_exists)

\* a write that, when an entity below it fails, puts the store back as it
\* was when it started
WriteContext_write_undo(context, instance, st) ==
    Bind(SerializeFields(context, instance,
                         [st EXCEPT !.rw = set_log(@, context.log)], 1, EmptyMap),
         LAMBDA ser :
            IF ~ser.ok
            THEN [st |-> [ser.st EXCEPT !.files = st.files],
                  ok |-> FALSE, path |-> None, err |-> "Other"]
            ELSE Bind(ResolveCollision(context.write_options, instance, ser.st),
                      LAMBDA c : CreateFile(ser.st, c,
                                            [tag |-> instance.type, body |-> ser.doc])))

\* a write that tests for the file of the entity before it encodes the
\* entity, and leaves the entities below an existing file alone
WriteContext_write_test_first(context, instance, st) ==
    LET here == ResolveCollision(context.write_options, instance,
                                 [st EXCEPT !.rw = set_log(@, context.log)])
    IN IF here.early
       THEN CreateFile(st, here, [tag |-> instance.type, body |-> EmptyMap])
       ELSE Bind(SerializeFields(context, instance,
                                 [st EXCEPT !.rw = set_log(@, context.log)],
                                 1, EmptyMap),
                 LAMBDA ser :
                    IF ~ser.ok
                    THEN [st |-> ser.st, ok |-> FALSE, path |-> None, err |-> "Other"]
                    ELSE Bind(ResolveCollision(context.write_options, instance,
                                               ser.st),
                              LAMBDA c : CreateFile(ser.st, c,
                                                    [tag |-> instance.type,
                                                     body |-> ser.doc])))

\* WriteContext::write
WriteContext_write(context, instance, st) ==
    Bind(SerializeFields(context, instance,
                         [st EXCEPT !.rw = set_log(@, context.log)], 1, EmptyMap),
         LAMBDA ser :
            IF ~ser.ok
            THEN [st |-> ser.st, ok |-> FALSE, path |-> None, err |-> "Other"]
            ELSE Bind(ResolveCollision(context.write_options, instance, ser.st),
                      LAMBDA c : CreateFile(ser.st, c,
                                            [tag |-> instance.type, body |-> ser.doc])))

\* WriteContext::write of the root of a call whose link hooks find `found`
\* in the thread-local
WriteContext_write_root(context, found, instance, st) ==
    Bind(SerializeFields(found, instance,
                         [st EXCEPT !.rw = set_log(@, context.log)], 1, EmptyMap),
         LAMBDA ser :
            IF ~ser.ok
            THEN [st |-> ser.st, ok |-> FALSE, path |-> None, err |-> "Other"]
            ELSE Bind(ResolveCollision(context.write_options, instance, ser.st),
                      LAMBDA c : CreateFile(ser.st, c,
                                            [tag |-> instance.type, body |-> ser.doc])))

\* WriteContext::new
WriteContext_new(write_options, log) ==
    [log |-> log, database_manager |-> "dbm", write_options |-> write_options]

\* a write_verbose_log that puts back the context it found in the
\* thread-local
write_verbose_log_restoring(instance, write_options, log, fail, op) ==
    \E w \in {WriteContext_write(WriteContext_new(write_options, log), instance,
                                [files |-> files, rw |-> RW_INFO, fail |-> fail,
                                 trace |-> <<>>])} :
    \E t \in {take_write_info(w.st.rw)} :
       /\ files' = w.st.files
       /\ RW_INFO' = t.rw
       /\ WRITE_CONTEXT' = WRITE_CONTEXT
       /\ ret' = [op |-> op, ty |-> type_name(instance), ok |-> w.ok,
                  err |-> w.err, path |-> w.path,
                  info |-> IF w.ok /\ log THEN t.info ELSE None,
                  instance |-> instance, write_options |-> write_options,
                  name |-> NoName, val |-> None, res |-> <<>>,
                  fail |-> fail, trace |-> w.st.trace, missing |-> <<>>]
       /\ UNCHANGED <<cache, heap, READ_CONTEXT>>

\* DatabaseManager::write_verbose_log
write_verbose_log(instance, write_options, log, fail, op) ==
    \E w \in {WriteContext_write(WriteContext_new(write_options, log), instance,
                                [files |-> files, rw |-> RW_INFO, fail |-> fail,
                                 trace |-> <<>>])} :
    \E t \in {take_write_info(w.st.rw)} :
       /\ files' = w.st.files
       /\ RW_INFO' = t.rw
       /\ WRITE_CONTEXT' = None
       /\ ret' = [op |-> op, ty |-> type_name(instance), ok |-> w.ok,
                  err |-> w.err, path |-> w.path,
                  info |-> IF w.ok /\ log THEN t.info ELSE None,
                  instance |-> instance, write_options |-> write_options,
                  name |-> NoName, val |-> None, res |-> <<>>,
                  fail |-> fail, trace |-> w.st.trace, missing |-> <<>>]
       /\ UNCHANGED <<cache, heap, READ_CONTEXT>>

\* write_verbose_log from context.write(instance) to its return, the link
\* hooks reading the thread-local
write_verbose_log_rest(instance, write_options, log, op) ==
    \E w \in {WriteContext_write_root(WriteContext_new(write_options, log),
                                     WRITE_CONTEXT, instance,
                                     [files |-> files, rw |-> RW_INFO,
                                      fail |-> NoFail, trace |-> <<>>])} :
    \E t \in {take_write_info(w.st.rw)} :
       /\ files' = w.st.files
       /\ RW_INFO' = t.rw
       /\ WRITE_CONTEXT' = None
       /\ ret' = [op |-> op, ty |-> type_name(instance), ok |-> w.ok,
                  err |-> w.err, path |-> w.path,
                  info |-> IF w.ok /\ log THEN t.info ELSE None,
                  instance |-> instance, write_options |-> write_options,
                  name |-> NoName, val |-> None, res |-> <<>>,
                  fail |-> NoFail, trace |-> w.st.trace, missing |-> <<>>]
       /\ UNCHANGED <<cache, heap, READ_CONTEXT>>

\* DatabaseManager::write
Write(instance, write_options, fail) ==
    /\ write_verbose_log(instance, write_options, FALSE, fail, "write")
    /\ UNCHANGED threads

\* DatabaseManager::write_verbose
WriteVerbose(instance, write_options, fail) ==
    /\ write_verbose_log(instance, write_options, TRUE, fail, "write_verbose")
    /\ UNCHANGED threads

\* DatabaseManager::remove; refused says whether the file system refuses the
\* remove_file of the call
Remove(ty, name, refused) ==
    LET file_path == full_path_unchecked(ty, name)
        removed == exists(files, file_path) /\ ~refused
    IN /\ files' = IF removed
                   THEN [p \in DOMAIN files \ {file_path} |-> files[p]]
                   ELSE files
       /\ ret' = [op |-> "remove", ty |-> ty,
                  ok |-> ~(exists(files, file_path) /\ refused),
                  err |-> IF exists(files, file_path) /\ refused
                          THEN "RemoveFailed" ELSE NoError,
                  path |-> file_path,
                  info |-> None, instance |-> None, write_options |-> None,
                  name |-> name, val |-> None, res |-> <<>>,
                  fail |-> [NoFail EXCEPT !.remove = refused],
                  trace |-> <<>>, missing |-> <<>>]
       /\ UNCHANGED <<cache, heap, WRITE_CONTEXT, READ_CONTEXT, RW_INFO, threads>>

----------------------------------------------------------------------------
(* The read path: the Arc cache, the link hooks and ReadContext::read.  A  *)
(* run is threaded through st = [cache, heap, rw, res, missing]; fs is the *)
(* store.  For inspection, res lists the Arc links resolved by the call,   *)
(* in order, and missing the paths ReadContext::read did not find.         *)

NoArc == 0

\* a stricter test: reuse only when the two checksums are equal
use_arc_instance_strict(checksum_of_arc, checksum_of_link) ==
    checksum_of_arc = checksum_of_link

\* the test `use_arc_instance` of read_cache
use_arc_instance(checksum_of_arc, checksum_of_link) ==
    IF checksum_of_arc # NoChecksum
    THEN (IF checksum_of_link # NoChecksum
          THEN checksum_of_arc = checksum_of_link
          ELSE TRUE)
    ELSE TRUE

\* a downcast that takes every handle for a handle to a T
Downcast_unchecked(hp, arc, T) == arc

\* Arc<dyn Any>::downcast::<T>: the value behind the handle is a T
Downcast(hp, arc, T) == IF hp[arc].type = T THEN arc ELSE NoArc

\* the cache entry of (T, name), or None
CacheGet(c, T, name) ==
    IF T \in DOMAIN c /\ name \in DOMAIN c[T] THEN c[T][name] ELSE None

\* a read_cache that, on a failed checksum test, drops every entry of the type
read_cache_purge(c, hp, T, link) ==
    IF T \notin DOMAIN c THEN [cache |-> c, arc |-> NoArc]
    ELSE IF link.name \notin DOMAIN c[T] THEN [cache |-> c, arc |-> NoArc]
    ELSE LET checksum_arc == c[T][link.name]
         IN IF use_arc_instance(checksum_arc.checksum, LinkChecksum(link))
            THEN [cache |-> c, arc |-> Downcast(hp, checksum_arc.arc, T)]
            ELSE [cache |-> [c EXCEPT ![T] = EmptyMap], arc |-> NoArc]

\* read_cache: the handle to reuse (NoArc when there is none) and the cache
read_cache(c, hp, T, link) ==
    IF T \notin DOMAIN c THEN [cache |-> c, arc |-> NoArc]
    ELSE IF link.name \notin DOMAIN c[T] THEN [cache |-> c, arc |-> NoArc]
    ELSE LET checksum_arc == c[T][link.name]
         IN IF use_arc_instance(checksum_arc.checksum, LinkChecksum(link))
            THEN [cache |-> c, arc |-> Downcast(hp, checksum_arc.arc, T)]
            ELSE [cache |-> [c EXCEPT ![T] =
                                [n \in DOMAIN c[T] \ {link.name} |-> c[T][n]]],
                  arc |-> NoArc]

\* a write_cache that stores nothing
write_cache_skip(c, T, link, instance) == c

\* a write_cache that stores the handle without the checksum of the link
write_cache_bare(c, T, link, instance) ==
    LET name_map == IF T \in DOMAIN c THEN c[T] ELSE EmptyMap
        checksum_arc == [arc |-> instance, checksum |-> NoChecksum]
    IN (T :> ((link.name :> checksum_arc) @@ name_map)) @@ c

\* write_cache
write_cache(c, T, link, instance) ==
    LET name_map == IF T \in DOMAIN c THEN c[T] ELSE EmptyMap
        checksum_arc == [arc |-> instance, checksum |-> LinkChecksum(link)]
    IN (T :> ((link.name :> checksum_arc) @@ name_map)) @@ c

\* a test that never reports
test_for_checksum_mismatch_never(link, fs, file_path) == None

\* DatabaseLink::test_for_checksum_mismatch
test_for_checksum_mismatch(link, fs, file_path) ==
    IF LinkChecksum(link) = NoChecksum THEN None
    ELSE IF checksum(fs, file_path) = NoChecksum THEN None
    ELSE [checksum_cached_in_link |-> LinkChecksum(link),
          checksum_loaded_file |-> checksum(fs, file_path),
          file_path |-> file_path]

\* the hooks' `if let Some(mismatch) = ... { log_checksum_mismatch(mismatch) }`
LogIfMismatch(rw, link, fs, file_path) ==
    LET mismatch == test_for_checksum_mismatch(link, fs, file_path)
    IN IF mismatch # None THEN log_checksum_mismatch(rw, mismatch) ELSE rw

\* err is the io::ErrorKind of an io::Error; a serde error made of an
\* io::Error by de::Error::custom keeps it, as its message does
Fail(st, err) == [st |-> st, ok |-> FALSE, val |-> None, err |-> err]
Done(st, val) == [st |-> st, ok |-> TRUE, val |-> val, err |-> NoError]

RECURSIVE ReadContext_read(_, _, _, _, _)
RECURSIVE DeserializeFields(_, _, _, _, _, _, _)
RECURSIVE deserialize_link(_, _, _, _, _)
RECURSIVE deserialize_arc_link(_, _, _, _, _)
RECURSIVE deserialize_opt_link(_, _, _, _, _)
RECURSIVE deserialize_opt_arc_link(_, _, _, _, _)

\* a deserialize_link that decodes nothing without a read context
deserialize_link_strict(context, T, d, fs, st) ==
    IF context = None THEN Fail(st, "Other")
    ELSE IF IsLinkDoc(d)
    THEN LET file_path == full_path_unchecked(T, d.name)
         IN ReadContext_read(context, T, d.name, fs,
                             [st EXCEPT !.rw = LogIfMismatch(@, d, fs, file_path)])
    ELSE DeserializeFields(context, T, d, fs, st, 1, [type |-> T])

\* a deserialize_link that takes the value behind a cached handle when the
\* cache holds one for the link
deserialize_link_cached(context, T, d, fs, st) ==
    IF IsLinkDoc(d)
    THEN IF context = None THEN Fail(st, "Other")
         ELSE Bind(read_cache(st.cache, st.heap, T, d), LAMBDA rc :
                IF rc.arc # NoArc
                THEN Done(st, st.heap[rc.arc])
                ELSE LET file_path == full_path_unchecked(T, d.name)
                     IN ReadContext_read(context, T, d.name, fs,
                                         [st EXCEPT !.rw = LogIfMismatch(@, d, fs,
                                                                         file_path)]))
    ELSE DeserializeFields(context, T, d, fs, st, 1, [type |-> T])

\* deserialize_link: Visitor::visit_map
deserialize_link(context, T, d, fs, st) ==
    IF IsLinkDoc(d)
    THEN \* LinkOrEntity::DatabaseLink
         IF context = None THEN Fail(st, "Other")
         ELSE LET file_path == full_path_unchecked(T, d.name)
              IN ReadContext_read(context, T, d.name, fs,
                                  [st EXCEPT !.rw = LogIfMismatch(@, d, fs, file_path)])
    ELSE \* LinkOrEntity::Entity
         DeserializeFields(context, T, d, fs, st, 1, [type |-> T])

\* the part of VisitorArc::visit_map that follows a missed read_cache
ArcReadFresh(context, T, d, fs, st, before) ==
    Bind(ReadContext_read(context, T, d.name, fs, st), LAMBDA r :
        IF ~r.ok
        THEN [r EXCEPT !.st.res = Append(@, [ty |-> T, name |-> d.name,
                                             checksum |-> LinkChecksum(d),
                                             entry |-> before, arc |-> NoArc,
                                             logged |-> 0])]
        ELSE LET arc == Len(r.st.heap) + 1
                 file_path == full_path_unchecked(T, d.name)
                 rw == LogIfMismatch(r.st.rw, d, fs, file_path)
             IN Done([r.st EXCEPT
                        !.heap = Append(@, r.val),
                        !.rw = rw,
                        !.cache = write_cache(@, T, d, arc),
                        !.res = Append(@, [ty |-> T, name |-> d.name,
                                           checksum |-> LinkChecksum(d),
                                           entry |-> before, arc |-> arc,
                                           logged |-> Len(rw.checksum_mismatch)
                                                      - Len(r.st.rw.checksum_mismatch)])],
                     [arc |-> arc]))

\* a deserialize_arc_link that looks at the target file of a link whose
\* handle it takes from the cache
deserialize_arc_link_verified(context, T, d, fs, st) ==
    IF IsLinkDoc(d)
    THEN IF context = None THEN Fail(st, "Other")
         ELSE Bind(read_cache(st.cache, st.heap, T, d), LAMBDA rc :
                IF rc.arc # NoArc
                THEN LET file_path == full_path_unchecked(T, d.name)
                         rw == LogIfMismatch(st.rw, d, fs, file_path)
                     IN IF ~exists(fs, file_path)
                        THEN Fail([st EXCEPT !.missing = Append(@, file_path)],
                                  "InvalidData")
                        ELSE Done([st EXCEPT
                                     !.rw = rw,
                                     !.res =
                                        Append(@, [ty |-> T, name |-> d.name,
                                                   checksum |-> LinkChecksum(d),
                                                   entry |-> CacheGet(st.cache, T, d.name),
                                                   arc |-> rc.arc,
                                                   logged |-> Len(rw.checksum_mismatch)
                                                              - Len(st.rw.checksum_mismatch)])],
                                  [arc |-> rc.arc])
                ELSE ArcReadFresh(context, T, d, fs, [st EXCEPT !.cache = rc.cache],
                                  CacheGet(st.cache, T, d.name)))
    ELSE Bind(DeserializeFields(context, T, d, fs, st, 1, [type |-> T]), LAMBDA r :
            IF ~r.ok THEN r
            ELSE Done([r.st EXCEPT !.heap = Append(@, r.val)],
                      [arc |-> Len(r.st.heap) + 1]))

\* deserialize_arc_link: VisitorArc::visit_map
deserialize_arc_link(context, T, d, fs, st) ==
    IF IsLinkDoc(d)
    THEN \* LinkOrEntity::DatabaseLink
         IF context = None THEN Fail(st, "Other")
         ELSE Bind(read_cache(st.cache, st.heap, T, d), LAMBDA rc :
                IF rc.arc # NoArc
                THEN Done([st EXCEPT !.res =
                              Append(@, [ty |-> T, name |-> d.name,
                                         checksum |-> LinkChecksum(d),
                                         entry |-> CacheGet(st.cache, T, d.name),
                                         arc |-> rc.arc, logged |-> 0])],
                          [arc |-> rc.arc])
                ELSE ArcReadFresh(context, T, d, fs, [st EXCEPT !.cache = rc.cache],
                                  CacheGet(st.cache, T, d.name)))
    ELSE \* LinkOrEntity::Entity: Arc::new(val)
         Bind(DeserializeFields(context, T, d, fs, st, 1, [type |-> T]), LAMBDA r :
            IF ~r.ok THEN r
            ELSE Done([r.st EXCEPT !.heap = Append(@, r.val)],
                      [arc |-> Len(r.st.heap) + 1]))

\* deserialize_opt_link: deserialize_option, then visit_none or visit_some
deserialize_opt_link(context, T, d, fs, st) ==
    IF d = Null THEN Done(st, None)
    ELSE deserialize_link(context, T, d, fs, st)

\* deserialize_opt_arc_link: deserialize_option, then visit_none or visit_some
deserialize_opt_arc_link(context, T, d, fs, st) ==
    IF d = Null THEN Done(st, None)
    ELSE deserialize_arc_link(context, T, d, fs, st)

\* the derived Deserialize of struct T (deny_unknown_fields), from field i on
DeserializeFields(context, T, body, fs, st, i, acc) ==
    IF DOMAIN body # FieldNames(T) THEN Fail(st, "InvalidData")
    ELSE IF i > Len(Fields(T)) THEN Done(st, acc)
    ELSE LET f == Fields(T)[i]
         IN IF f.kind = "scalar"
            THEN DeserializeFields(context, T, body, fs, st, i + 1,
                                   acc @@ (f.fname :> body[f.fname]))
            ELSE Bind(CASE f.kind = "arc" ->
                             deserialize_arc_link(context, f.ty, body[f.fname], fs, st)
                        [] f.kind = "link" ->
                             deserialize_link(context, f.ty, body[f.fname], fs, st)
                        [] f.kind = "opt_arc" ->
                             deserialize_opt_arc_link(context, f.ty, body[f.fname], fs, st)
                        [] f.kind = "opt_link" ->
                             deserialize_opt_link(context, f.ty, body[f.fname], fs, st),
                      LAMBDA r :
                        IF ~r.ok THEN Fail(r.st, r.err)
                        ELSE DeserializeFields(context, T, body, fs, r.st, i + 1,
                                               acc @@ (f.fname :> r.val)))

EntityTypes == {"Material", "Shovel", "Stool", "User", "Cup", "Shelf", "Cupboard"}

\* Format::deserialize (typetag): the tag names the type whose Deserialize runs
FormatDeserialize(context, data, fs, st) ==
    IF data.tag \notin EntityTypes THEN Fail(st, "InvalidData")
    ELSE DeserializeFields(context, data.tag, data.body, fs, st, 1,
                           [type |-> data.tag])

\* a read that hands on the kind of the error met while decoding
ReadContext_read_kind(context, T, name, fs, st) ==
    LET file_path == full_path_unchecked(T, name)
    IN IF ~exists(fs, file_path)
       THEN Fail([st EXCEPT !.rw = set_log(@, context.log),
                            !.missing = Append(@, file_path)], "NotFound")
       ELSE Bind(FormatDeserialize(context, fs[file_path], fs,
                                   [st EXCEPT !.rw = set_log(@, context.log)]),
                 LAMBDA r :
                    IF ~r.ok THEN r
                    ELSE IF r.val.type # T THEN Fail(r.st, "InvalidData")
                    ELSE r)

\* ReadContext::read
ReadContext_read(context, T, name, fs, st) ==
    LET file_path == full_path_unchecked(T, name)
    IN IF ~exists(fs, file_path)
       THEN Fail([st EXCEPT !.rw = set_log(@, context.log),
                            !.missing = Append(@, file_path)], "NotFound")
       ELSE Bind(FormatDeserialize(context, fs[file_path], fs,
                                   [st EXCEPT !.rw = set_log(@, context.log)]),
                 LAMBDA r :
                    IF ~r.ok THEN Fail(r.st, "InvalidData")
                    ELSE IF r.val.type # T THEN Fail(r.st, "InvalidData")
                    ELSE r)

\* ReadContext::read of the root of a call whose link hooks find `found` in
\* the thread-local
ReadContext_read_root(context, found, T, name, fs, st) ==
    LET file_path == full_path_unchecked(T, name)
    IN IF ~exists(fs, file_path)
       THEN Fail([st EXCEPT !.rw = set_log(@, context.log),
                            !.missing = Append(@, file_path)], "NotFound")
       ELSE Bind(FormatDeserialize(found, fs[file_path], fs,
                                   [st EXCEPT !.rw = set_log(@, context.log)]),
                 LAMBDA r :
                    IF ~r.ok THEN Fail(r.st, "InvalidData")
                    ELSE IF r.val.type # T THEN Fail(r.st, "InvalidData")
                    ELSE r)

\* ReadContext::new
ReadContext_new(log) == [log |-> log, database_manager |-> "dbm"]

\* DatabaseManager::read_verbose_log
read_verbose_log(T, name, log, op) ==
    \E r \in {ReadContext_read(ReadContext_new(log), T, name, files,
                               [cache |-> cache, heap |-> heap, rw |-> RW_INFO,
                                res |-> <<>>, missing |-> <<>>])} :
    \E t \in {take_read_info(r.st.rw)} :
       /\ cache' = r.st.cache
       /\ heap' = r.st.heap
       /\ RW_INFO' = t.rw
       /\ READ_CONTEXT' = None
       /\ ret' = [op |-> op, ty |-> T, ok |-> r.ok,
                  err |-> r.err, path |-> None,
                  info |-> IF r.ok /\ op = "read_verbose" THEN t.info ELSE None,
                  instance |-> None, write_options |-> None,
                  name |-> name, val |-> r.val, res |-> r.st.res,
                  fail |-> NoFail, trace |-> <<>>, missing |-> r.st.missing]
       /\ UNCHANGED <<files, WRITE_CONTEXT>>

\* read_verbose_log from context.read(name) to its return, the link hooks
\* reading the thread-local
read_verbose_log_rest(T, name, log, op) ==
    \E r \in {ReadContext_read_root(ReadContext_new(log), READ_CONTEXT, T, name,
                                    files,
                                    [cache |-> cache, heap |-> heap,
                                     rw |-> RW_INFO, res |-> <<>>,
                                     missing |-> <<>>])} :
    \E t \in {take_read_info(r.st.rw)} :
       /\ cache' = r.st.cache
       /\ heap' = r.st.heap
       /\ RW_INFO' = t.rw
       /\ READ_CONTEXT' = None
       /\ ret' = [op |-> op, ty |-> T, ok |-> r.ok,
                  err |-> r.err, path |-> None,
                  info |-> IF r.ok /\ op = "read_verbose" THEN t.info ELSE None,
                  instance |-> None, write_options |-> None,
                  name |-> name, val |-> r.val, res |-> r.st.res,
                  fail |-> NoFail, trace |-> <<>>, missing |-> r.st.missing]
       /\ UNCHANGED <<files, WRITE_CONTEXT>>

\* DatabaseManager::read
Read(T, name) ==
    /\ read_verbose_log(T, name, TRUE, "read")
    /\ UNCHANGED threads

\* DatabaseManager::read_verbose
ReadVerbose(T, name) ==
    /\ read_verbose_log(T, name, TRUE, "read_verbose")
    /\ UNCHANGED threads

\* the type from_str casts the decoded value to: the closure's io::Result<T>
FromStrTarget(T) == "Result<" \o T \o ">"

\* DatabaseManager::from_str; ret.instance keeps the text
FromStr(T, str) ==
    \E r \in {FormatDeserialize(ReadContext_new(FALSE), str, files,
                                [cache |-> cache, heap |-> heap, rw |-> RW_INFO,
                                 res |-> <<>>, missing |-> <<>>])} :
       /\ cache' = r.st.cache
       /\ heap' = r.st.heap
       /\ RW_INFO' = r.st.rw
       /\ READ_CONTEXT' = IF r.ok /\ r.val.type # FromStrTarget(T)
                          THEN ReadContext_new(FALSE)   \* the early return
                          ELSE None
       /\ ret' = [op |-> "from_str", ty |-> T,
                  ok |-> r.ok /\ r.val.type = FromStrTarget(T),
                  err |-> "InvalidData", path |-> None, info |-> None,
                  instance |-> str, write_options |-> None,
                  name |-> NoName,
                  val |-> IF r.ok /\ r.val.type = FromStrTarget(T) THEN r.val ELSE None,
                  res |-> r.st.res,
                  fail |-> NoFail, trace |-> <<>>, missing |-> r.st.missing]
       /\ UNCHANGED <<files, WRITE_CONTEXT, threads>>

\* an insert that stores, with the handle, the checksum of the file of the
\* instance's name
CacheInsert_checksummed(instance) ==
    LET arc == Len(heap) + 1
        T == instance.type
        subcache == IF T \in DOMAIN cache THEN cache[T] ELSE EmptyMap
        old_entry == CacheGet(cache, T, EntryName(instance))
    IN /\ heap' = Append(heap, instance)
       /\ cache' = (T :> ((EntryName(instance) :>
                             [arc |-> arc,
                              checksum |-> checksum(files,
                                               full_path_unchecked(T, EntryName(instance)))])
                          @@ subcache)) @@ cache
       /\ ret' = [op |-> "cache_insert", ty |-> T, ok |-> TRUE, err |-> NoError, path |-> None,
                  info |-> None, instance |-> instance, write_options |-> None,
                  name |-> NoName,
                  val |-> IF old_entry # None /\ Downcast(heap, old_entry.arc, T) # NoArc
                          THEN [arc |-> old_entry.arc] ELSE None,
                  res |-> <<>>,
                  fail |-> NoFail, trace |-> <<>>, missing |-> <<>>]
       /\ UNCHANGED <<files, WRITE_CONTEXT, READ_CONTEXT, RW_INFO, threads>>

\* an insert that leaves an entry that is already there
CacheInsert_keep(instance) ==
    LET arc == Len(heap) + 1
        T == instance.type
        subcache == IF T \in DOMAIN cache THEN cache[T] ELSE EmptyMap
        old_entry == CacheGet(cache, T, EntryName(instance))
    IN /\ heap' = Append(heap, instance)
       /\ cache' = (T :> (subcache
                          @@ (EntryName(instance) :> [arc |-> arc, checksum |-> NoChecksum])))
                     @@ cache
       /\ ret' = [op |-> "cache_insert", ty |-> T, ok |-> TRUE, err |-> NoError, path |-> None,
                  info |-> None, instance |-> instance, write_options |-> None,
                  name |-> NoName,
                  val |-> IF old_entry # None /\ Downcast(heap, old_entry.arc, T) # NoArc
                          THEN [arc |-> old_entry.arc] ELSE None,
                  res |-> <<>>,
                  fail |-> NoFail, trace |-> <<>>, missing |-> <<>>]
       /\ UNCHANGED <<files, WRITE_CONTEXT, READ_CONTEXT, RW_INFO, threads>>

\* CacheEntry::insert(dbm.cache_mut(), Arc::new(instance)); ret.val is the
\* Option<Arc<T>> it returns
CacheInsert(instance) ==
    LET arc == Len(heap) + 1
        T == instance.type
        subcache == IF T \in DOMAIN cache THEN cache[T] ELSE EmptyMap
        old_entry == CacheGet(cache, T, EntryName(instance))
    IN /\ heap' = Append(heap, instance)
       /\ cache' = (T :> ((EntryName(instance) :> [arc |-> arc, checksum |-> NoChecksum])
                          @@ subcache)) @@ cache
       /\ ret' = [op |-> "cache_insert", ty |-> T, ok |-> TRUE, err |-> NoError, path |-> None,
                  info |-> None, instance |-> instance, write_options |-> None,
                  name |-> NoName,
                  val |-> IF old_entry # None /\ Downcast(heap, old_entry.arc, T) # NoArc
                          THEN [arc |-> old_entry.arc] ELSE None,
                  res |-> <<>>,
                  fail |-> NoFail, trace |-> <<>>, missing |-> <<>>]
       /\ UNCHANGED <<files, WRITE_CONTEXT, READ_CONTEXT, RW_INFO, threads>>

\* the program stores an entry itself through DatabaseManager::cache_mut:
\* dbm.cache_mut().entry(TypeId::of::<T>()).or_default()
\*    .insert(instance.name(), CacheEntry::new(Arc::new(instance)));
\* nothing ties the type of the instance to T
CacheMutInsert(T, instance) ==
    LET arc == Len(heap) + 1
        subcache == IF T \in DOMAIN cache THEN cache[T] ELSE EmptyMap
    IN /\ heap' = Append(heap, instance)
       /\ cache' = (T :> ((EntryName(instance) :> [arc |-> arc, checksum |-> NoChecksum])
                          @@ subcache)) @@ cache
       /\ ret' = [op |-> "cache_mut", ty |-> T, ok |-> TRUE, err |-> NoError, path |-> None,
                  info |-> None, instance |-> instance, write_options |-> None,
                  name |-> NoName, val |-> None, res |-> <<>>,
                  fail |-> NoFail, trace |-> <<>>, missing |-> <<>>]
       /\ UNCHANGED <<files, WRITE_CONTEXT, READ_CONTEXT, RW_INFO, threads>>

\* a file of the store is edited from outside the manager (std::fs::write);
\* this is no call of the manager, so ret keeps the last call
ExternalEdit(path, data) ==
    /\ exists(files, path)
    /\ files[path] # data
    /\ files' = [files EXCEPT ![path] = data]
    /\ UNCHANGED <<cache, heap, WRITE_CONTEXT, READ_CONTEXT, RW_INFO, ret, threads>>

----------------------------------------------------------------------------
(* Initial states and inputs.                                              *)

MaxFiles == 3
MaxArcs == 3

RetInit ==
    [op |-> "init", ty |-> "", ok |-> TRUE, err |-> NoError, path |-> None,
     info |-> None,
     instance |-> None, write_options |-> None, name |-> NoName, val |-> None,
     res |-> <<>>, fail |-> NoFail, trace |-> <<>>, missing |-> <<>>]

\* the threads of the program, each with a manager of its own (a
\* DatabaseManager is neither Send nor Sync)
Threads == {1, 2}

\* a thread that has not run yet: thread_local! initial values, a new manager
ThreadInit ==
    [WRITE_CONTEXT |-> None, READ_CONTEXT |-> None, RW_INFO |-> RwInfoDefault,
     cache |-> EmptyMap]

\* thread 1 runs, no thread is in a call
ThreadsInit ==
    [running |-> 1, parked |-> [t \in Threads \ {1} |-> ThreadInit],
     open |-> [t \in Threads |-> None]]

\* DatabaseManager::open on an empty directory
Init ==
    /\ files = EmptyMap
    /\ cache = EmptyMap
    /\ heap = <<>>
    /\ WRITE_CONTEXT = None
    /\ READ_CONTEXT = None
    /\ RW_INFO = RwInfoDefault
    /\ ret = RetInit
    /\ threads = ThreadsInit

\* WriteOptions::default()
WriteOptionsDefault ==
    [name_collisions |-> "KeepExisting", write_mode |-> "Link", alias |-> EmptyMap]

OverwriteLink == [WriteOptionsDefault EXCEPT !.name_collisions = "Overwrite"]

\* the store after the given entities were written, in order, with options wo
RECURSIVE StoreAfter(_, _, _)
StoreAfter(fs, entities, wo) ==
    IF entities = <<>> THEN fs
    ELSE StoreAfter(WriteContext_write(WriteContext_new(wo, FALSE), Head(entities),
                                       [files |-> fs, rw |-> RwInfoDefault,
                                        fail |-> NoFail, trace |-> <<>>]).st.files,
                    Tail(entities), wo)

Materials == {Material(i, nameA) : i \in {1, 2}}
Aliases == {EmptyMap, (nameA :> nameB)}

WOptions ==
    [name_collisions : {"Overwrite", "KeepExisting", "AdjustName"},
     write_mode : {"Link"}, alias : Aliases]

NextW ==
    \/ \E e \in Materials \cup {Shovel(nameS, Material(1, nameA), Material(1, nameA))},
          wo \in WOptions :
          /\ WriteVerbose(e, wo, NoFail)
          /\ Cardinality(DOMAIN files') <= MaxFiles
    \/ \E ty \in {"Material", "Shovel"}, n \in {nameA, nameB, nameS} :
          /\ exists(files, full_path_unchecked(ty, n))
          /\ Remove(ty, n, FALSE)

SpecW == Init /\ [][NextW]_vars

----------------------------------------------------------------------------
(* Properties of the collision policies and of the alias, checked under    *)
(* SpecW, where every step is a call of the manager.                       *)

\* the step is a successful call of write_verbose with the given policy
IsWriteStep(policy) ==
    /\ ret'.op = "write_verbose"
    /\ ret'.ok
    /\ ret'.write_options.name_collisions = policy

InSeq(x, s) == \E i \in DOMAIN s : s[i] = x

\* <dir>/<type>/<name>.<ext> of the instance written, the alias applied
CanonicalPath(r) ==
    LET n == IF r.instance.name \in DOMAIN r.write_options.alias
             THEN r.write_options.alias[r.instance.name]
             ELSE r.instance.name
    IN [dir |-> r.instance.type, file |-> n \o Dot \o file_ext]

\* <dir>/<type>/<name>_<k>.<ext>
SuffixedPath(r, k) ==
    LET c == CanonicalPath(r)
        stem == SubSeq(c.file, 1, Len(c.file) - Len(Dot \o file_ext))
    IN [dir |-> c.dir, file |-> stem \o Underscore \o Digits(k) \o Dot \o file_ext]

\* the file holds the serialization of the instance: its type tag and its
\* scalar fields
HoldsInstance(doc, instance) ==
    /\ doc.tag = instance.type
    /\ \A i \in DOMAIN Fields(instance.type) :
          LET f == Fields(instance.type)[i]
          IN f.kind = "scalar" => doc.body[f.fname] = instance[f.fname]

\* the number of entities of the graph below and including the instance
RECURSIVE GraphSize(_)
RECURSIVE GraphSizeFrom(_, _)
GraphSize(instance) == 1 + GraphSizeFrom(instance, 1)
GraphSizeFrom(instance, i) ==
    IF i > Len(Fields(instance.type)) THEN 0
    ELSE LET f == Fields(instance.type)[i]
         IN (IF f.kind = "scalar" THEN 0 ELSE GraphSize(instance[f.fname]))
            + GraphSizeFrom(instance, i + 1)

\* C7 as stated: with alias a -> b, the entity named a is stored in the file
\* of b, no file of a is created, and the link left in the parent's file
\* carries b.
C7_AliasInFileAndLink ==
    [][(ret'.op = "write_verbose" /\ ret'.ok /\ ret'.instance.type = "Shovel"
          /\ ret'.write_options.write_mode = "Link"
          /\ ret'.instance.blade.name \in DOMAIN ret'.write_options.alias
          /\ ~exists(files, ret'.path)) =>
         LET a == ret'.instance.blade.name
             b == ret'.write_options.alias[a]
         IN /\ exists(files', full_path_unchecked("Material", b))
            /\ exists(files', full_path_unchecked("Material", a))
                 => exists(files, full_path_unchecked("Material", a))
            /\ files'[ret'.path].body.blade.name = b]_vars

\* C8: KeepExisting leaves an existing canonical file untouched, returns its
\* path and logs it as kept only; otherwise it creates the file and logs it
\* as created; a repeated write returns the same path without "created".
C8_KeepExisting ==
    [][IsWriteStep("KeepExisting") =>
         LET p == CanonicalPath(ret')
         IN /\ ret'.path = p
            /\ \A q \in DOMAIN files : q \in DOMAIN files' /\ files'[q] = files[q]
            /\ ret'.info.overwritten_files = <<>>
            /\ exists(files, p) =>
                  /\ InSeq(p, ret'.info.kept_files)
                  /\ ~InSeq(p, ret'.info.created_files)
            /\ ~exists(files, p) =>
                  /\ exists(files', p)
                  /\ HoldsInstance(files'[p], ret'.instance)
                  /\ InSeq(p, ret'.info.created_files)
                  /\ ~InSeq(p, ret'.info.kept_files)
            /\ (ret.op = "write_verbose" /\ ret.ok
                  /\ ret.write_options.name_collisions = "KeepExisting"
                  /\ CanonicalPath(ret) = p) =>
                  /\ ret'.path = ret.path
                  /\ ~InSeq(p, ret'.info.created_files)]_vars

\* a KeepExisting write met its canonical file holding another value and
\* kept it
C8_Witness ==
    /\ ret.op = "write_verbose"
    /\ ret.ok
    /\ ret.write_options.name_collisions = "KeepExisting"
    /\ ret.instance.type = "Material"
    /\ InSeq(ret.path, ret.info.kept_files)
    /\ files[ret.path] # [tag |-> "Material",
                          body |-> [id |-> ret.instance.id, name |-> ret.instance.name]]

\* C9: Overwrite always writes at the canonical path, replacing the content,
\* and returns that path; the path is logged as overwritten exactly when the
\* file existed before the write, and as created otherwise.
C9_Overwrite ==
    [][IsWriteStep("Overwrite") =>
         LET p == CanonicalPath(ret')
         IN /\ ret'.path = p
            /\ exists(files', p)
            /\ HoldsInstance(files'[p], ret'.instance)
            /\ ret'.info.kept_files = <<>>
            /\ InSeq(p, ret'.info.overwritten_files) <=> exists(files, p)
            /\ InSeq(p, ret'.info.created_files) <=> ~exists(files, p)]_vars

\* an Overwrite write replaced the content of an existing file and logged
\* the path as overwritten
C9_Witness ==
    /\ ret.op = "write_verbose"
    /\ ret.ok
    /\ ret.write_options.name_collisions = "Overwrite"
    /\ ret.instance.type = "Material"
    /\ ret.instance.id = 2
    /\ InSeq(ret.path, ret.info.overwritten_files)
    /\ files[ret.path].body.id = 2

\* C10: AdjustName writes to the canonical path when it is free and else to
\* the first free <name>_<k>, k = 0, 1, ...; no file that existed changes;
\* the chosen path is logged as created and nothing as overwritten; a call
\* that writes N entities adds N distinct files.
C10_AdjustName ==
    [][IsWriteStep("AdjustName") =>
         LET p == CanonicalPath(ret')
         IN /\ ~exists(files, p) => ret'.path = p
            /\ exists(files, p) =>
                  \E k \in 0..MaxFiles :
                     /\ ret'.path = SuffixedPath(ret', k)
                     /\ \A j \in 0..(k - 1) : exists(files, SuffixedPath(ret', j))
            /\ ~exists(files, ret'.path)
            /\ exists(files', ret'.path)
            /\ HoldsInstance(files'[ret'.path], ret'.instance)
            /\ \A q \in DOMAIN files : q \in DOMAIN files' /\ files'[q] = files[q]
            /\ InSeq(ret'.path, ret'.info.created_files)
            /\ ret'.info.overwritten_files = <<>>
            /\ ret'.info.kept_files = <<>>
            /\ Len(ret'.info.created_files) = GraphSize(ret'.instance)
            /\ Cardinality({ret'.info.created_files[i] :
                               i \in DOMAIN ret'.info.created_files})
                 = GraphSize(ret'.instance)
            /\ Cardinality(DOMAIN files')
                 = Cardinality(DOMAIN files) + GraphSize(ret'.instance)]_vars

\* an AdjustName write found <name> and <name>_0 taken and created <name>_1
C10_Witness ==
    /\ ret.op = "write_verbose"
    /\ ret.ok
    /\ ret.write_options.name_collisions = "AdjustName"
    /\ ret.path = SuffixedPath(ret, 1)
    /\ exists(files, CanonicalPath(ret))
    /\ exists(files, SuffixedPath(ret, 0))
    /\ exists(files, ret.path)

----------------------------------------------------------------------------
(* Reads of a Stool whose two legs are Arc links, on a store that the      *)
(* manager wrote and that is edited from outside between the reads.        *)

MaterialDoc(m) == [tag |-> "Material", body |-> [id |-> m.id, name |-> m.name]]
LinkDoc(name, cks) == [name |-> name, checksum |-> cks]
StoolDoc(l1, l2) ==
    [tag |-> "Stool", body |-> [name |-> nameT, leg_1 |-> l1, leg_2 |-> l2]]

RChecksums == {adler32(FileBytes(MaterialDoc(m))) : m \in Materials} \cup {NoChecksum}
RLinksA == {LinkDoc(nameA, c) : c \in RChecksums}
RLinks == RLinksA
             \cup {LinkDoc(nameB, adler32(FileBytes(MaterialDoc(Material(1, nameB)))))}
RContents == {MaterialDoc(m) : m \in Materials} \cup {Garbage}

InitR ==
    /\ files = StoreAfter(StoreAfter(EmptyMap, <<Material(1, nameB)>>, OverwriteLink),
                          <<Stool(nameT, Material(1, nameA), Material(1, nameA))>>,
                          OverwriteLink)
    /\ cache = EmptyMap
    /\ heap = <<>>
    /\ WRITE_CONTEXT = None
    /\ READ_CONTEXT = None
    /\ RW_INFO = RwInfoDefault
    /\ ret = RetInit
    /\ threads = ThreadsInit

NextR ==
    \/ /\ ReadVerbose("Stool", nameT)
       /\ Len(heap') <= MaxArcs
    \/ \E data \in RContents :
          ExternalEdit(full_path_unchecked("Material", nameA), data)
    \/ \E l1 \in RLinksA, l2 \in RLinks :
          ExternalEdit(full_path_unchecked("Stool", nameT), StoolDoc(l1, l2))
    \/ /\ CacheInsert(Material(2, nameA))
       /\ Len(heap') <= MaxArcs

SpecR == InitR /\ [][NextR]_vars

----------------------------------------------------------------------------
(* Properties of the Arc cache, checked under SpecR.                       *)

ReadOps == {"read", "read_verbose"}

\* the step is a call of read or read_verbose; ret' is what it returned
IsReadStep == ret'.op \in ReadOps /\ files' = files

\* the value a file decodes to
Decoded(doc) == [type |-> doc.tag] @@ doc.body

SameTarget(x, y) == x.ty = y.ty /\ x.name = y.name

\* the links resolved by the previous call, when it was a read, followed by
\* those resolved by this call
TwoCalls == (IF ret.op \in ReadOps THEN ret.res ELSE <<>>) \o ret'.res

RECURSIVE SumLogged(_)
SumLogged(res) == IF res = <<>> THEN 0 ELSE Head(res).logged + SumLogged(Tail(res))

\* C2 as stated: over consecutive read calls and within one document, Arc
\* links to the same (type, name) with equal checksums resolve to the same
\* handle, and links to different names resolve to different handles.
C2_SameLinkSameHandle ==
    [][IsReadStep =>
         \A i \in DOMAIN TwoCalls, j \in DOMAIN TwoCalls :
            (i < j /\ TwoCalls[i].arc # NoArc /\ TwoCalls[j].arc # NoArc) =>
               /\ (SameTarget(TwoCalls[i], TwoCalls[j])
                     /\ TwoCalls[i].checksum = TwoCalls[j].checksum)
                    => TwoCalls[i].arc = TwoCalls[j].arc
               /\ ~SameTarget(TwoCalls[i], TwoCalls[j])
                    => TwoCalls[i].arc # TwoCalls[j].arc]_vars

\* no link to the target of s[i] that carries another checksum is resolved
\* strictly between positions i and j
NoOtherChecksumBetween(s, i, j) ==
    \A k \in DOMAIN s :
        (i < k /\ k < j /\ SameTarget(s[k], s[i]))
            => s[k].checksum \in {s[i].checksum, NoChecksum}

\* C2 (amended): two Arc links to the same (type, name) with equal checksums
\* resolve to the same handle, within one document and over consecutive read
\* calls, as long as no link to that (type, name) with a different checksum
\* is resolved between them; links to different names resolve to different
\* handles.
C2_SameLinkSameHandleUnlessEvicted ==
    [][IsReadStep =>
         \A i \in DOMAIN TwoCalls, j \in DOMAIN TwoCalls :
            (i < j /\ TwoCalls[i].arc # NoArc /\ TwoCalls[j].arc # NoArc) =>
               /\ (SameTarget(TwoCalls[i], TwoCalls[j])
                     /\ TwoCalls[i].checksum = TwoCalls[j].checksum
                     /\ NoOtherChecksumBetween(TwoCalls, i, j))
                    => TwoCalls[i].arc = TwoCalls[j].arc
               /\ ~SameTarget(TwoCalls[i], TwoCalls[j])
                    => TwoCalls[i].arc # TwoCalls[j].arc]_vars

\* a read whose two legs link to the same name with the same checksum took
\* the handle an earlier call had cached for both, and a read resolved links
\* to two names
C2_Witness ==
    /\ ret.op \in ReadOps
    /\ ret.ok
    /\ Len(ret.res) = 2
    /\ SameTarget(ret.res[1], ret.res[2])
    /\ ret.res[1].checksum # NoChecksum
    /\ ret.res[1].checksum = ret.res[2].checksum
    /\ ret.res[1].entry # None
    /\ ret.res[1].entry.arc = ret.res[1].arc
    /\ ret.res[1].arc = ret.res[2].arc

\* the rule of section "cache reuse": absent on either side, or equal
Reusable(entry_checksum, link_checksum) ==
    \/ entry_checksum = NoChecksum
    \/ link_checksum = NoChecksum
    \/ entry_checksum = link_checksum

\* C3: a cached entry is reused exactly when its checksum is absent, the
\* link's checksum is absent, or the two are equal; otherwise it is evicted
\* and the target is read fresh into a new handle.
C3_CacheReuseRule ==
    [][IsReadStep =>
         \A i \in DOMAIN ret'.res :
            LET r == ret'.res[i]
                file_path == full_path_unchecked(r.ty, r.name)
            IN r.entry # None =>
                 IF Reusable(r.entry.checksum, r.checksum)
                 THEN r.arc = r.entry.arc
                 ELSE /\ r.arc # r.entry.arc
                      /\ r.arc # NoArc =>
                            /\ r.arc > Len(heap)
                            /\ heap'[r.arc] = Decoded(files[file_path])
                      /\ r.arc = NoArc => CacheGet(cache', r.ty, r.name) = None]_vars

\* one read reused an entry for its first leg and evicted it for its second,
\* the entry's and the link's checksums both being present and different
C3_Witness ==
    /\ ret.op \in ReadOps
    /\ Len(ret.res) = 2
    /\ ret.res[1].entry # None
    /\ ret.res[1].arc = ret.res[1].entry.arc
    /\ ret.res[2].entry # None
    /\ ret.res[2].entry.checksum # NoChecksum
    /\ ret.res[2].checksum # NoChecksum
    /\ ret.res[2].checksum # ret.res[2].entry.checksum
    /\ ret.res[2].arc \notin {NoArc, ret.res[2].entry.arc}

\* the target file no longer holds the value behind the cached handle
TargetChanged(r, hp) ==
    LET file_path == full_path_unchecked(r.ty, r.name)
    IN /\ r.entry # None
       /\ exists(files, file_path)
       /\ Decoded(files[file_path]) # hp[r.entry.arc]

\* C4 as stated: once a link is cached, a change of the target file makes
\* the next read of the same link return another handle and record exactly
\* one checksum mismatch in the ReadInfo.
C4_TargetChangeEvicts ==
    [][(IsReadStep /\ ret'.op = "read_verbose" /\ ret'.ok) =>
         \A i \in DOMAIN ret'.res :
            LET r == ret'.res[i]
            IN (TargetChanged(r, heap') /\ r.checksum = r.entry.checksum) =>
                  /\ r.arc # r.entry.arc
                  /\ Len(ret'.info.checksum_mismatch) = 1]_vars

\* C4 (amended): once a link is cached with checksum c, the next read of a
\* link to the same target returns another, fresh handle when that link
\* carries a checksum other than c, and then records exactly one mismatch
\* for it if that checksum also differs from the target file's; a link that
\* carries c or no checksum gets the cached handle and records nothing, even
\* when the target file has changed.
C4_LinkChecksumChangeEvicts ==
    [][IsReadStep =>
         /\ \A i \in DOMAIN ret'.res :
               LET r == ret'.res[i]
                   file_path == full_path_unchecked(r.ty, r.name)
               IN (r.entry # None /\ r.entry.checksum # NoChecksum) =>
                    IF r.checksum \in {r.entry.checksum, NoChecksum}
                    THEN r.arc = r.entry.arc /\ r.logged = 0
                    ELSE r.arc # NoArc =>
                           /\ r.arc # r.entry.arc
                           /\ r.arc > Len(heap)
                           /\ r.checksum # checksum(files, file_path)
                                => r.logged = 1
         /\ (ret'.op = "read_verbose" /\ ret'.ok) =>
               Len(ret'.info.checksum_mismatch) = SumLogged(ret'.res)]_vars

\* one read_verbose returned the cached handle for a link that carries the
\* cached checksum, recording nothing, and a fresh handle with one mismatch
\* for a link whose checksum differs from the cached one and from the file's
C4_Witness ==
    /\ ret.op = "read_verbose"
    /\ ret.ok
    /\ Len(ret.res) = 2
    /\ ret.res[1].entry # None
    /\ ret.res[1].entry.checksum # NoChecksum
    /\ ret.res[1].checksum = ret.res[1].entry.checksum
    /\ ret.res[1].arc = ret.res[1].entry.arc
    /\ ret.res[2].checksum
         # checksum(files, full_path_unchecked(ret.res[2].ty, ret.res[2].name))
    /\ ret.res[2].entry # None
    /\ ret.res[2].entry.checksum # NoChecksum
    /\ ret.res[2].checksum \notin {NoChecksum, ret.res[2].entry.checksum}
    /\ ret.res[2].arc \notin {NoArc, ret.res[2].entry.arc}
    /\ ret.res[2].logged = 1
    /\ Len(ret.info.checksum_mismatch) = 1

----------------------------------------------------------------------------
(* Writes of Shovels and Materials under every policy, each possibly       *)
(* followed by a read of the Shovel, on one manager.                       *)

RTShovels ==
    {Shovel(nameS, Material(1, nameA), Material(1, nameA)),
     Shovel(nameS, Material(2, nameA), Material(1, nameA)),
     Shovel(nameS, Material(1, nameA), Material(1, nameB))}

\* every policy, and the alias with Overwrite
RTOptions ==
    {wo \in WOptions : wo.alias = EmptyMap \/ wo.name_collisions = "Overwrite"}

NextRT ==
    \/ \E e \in {Material(2, nameA)} \cup RTShovels, wo \in RTOptions :
          /\ WriteVerbose(e, wo, NoFail)
          /\ Cardinality(DOMAIN files') <= MaxFiles
    \/ /\ ReadVerbose("Shovel", nameS)
       /\ Len(heap') <= MaxArcs
    \/ /\ CacheInsert(Material(2, nameA))
       /\ Len(heap') <= MaxArcs

SpecRT == Init /\ [][NextRT]_vars

\* the value behind a deserialized value, every handle replaced by what it
\* points to
RECURSIVE DerefValue(_, _)
RECURSIVE DerefFields(_, _, _, _)
DerefValue(hp, v) == DerefFields(hp, v, 1, [type |-> v.type])
DerefFields(hp, v, i, acc) ==
    IF i > Len(Fields(v.type)) THEN acc
    ELSE LET f == Fields(v.type)[i]
             x == CASE f.kind = "scalar" -> v[f.fname]
                    [] f.kind = "link" -> DerefValue(hp, v[f.fname])
                    [] f.kind = "arc" -> DerefValue(hp, hp[v[f.fname].arc])
         IN DerefFields(hp, v, i + 1, acc @@ (f.fname :> x))

\* the step is a read_verbose of the entity that the previous call, a
\* successful write_verbose in Link mode, wrote
IsReadAfterWrite ==
    /\ ret.op = "write_verbose"
    /\ ret.ok
    /\ ret.write_options.write_mode = "Link"
    /\ ret'.op = "read_verbose"
    /\ ret'.ty = ret.ty
    /\ ret'.name = ret.instance.name

\* C5 as stated: a ChecksumMismatch is recorded only for a link whose
\* checksum differs from that of the target file's bytes; a read right after
\* a Link-mode write that stored every file reports none; a link without a
\* checksum never produces one.
C5_MismatchOnlyWhenDifferent ==
    [][(ret'.op = "read_verbose" /\ ret'.ok) =>
         /\ \A i \in DOMAIN ret'.info.checksum_mismatch :
               LET m == ret'.info.checksum_mismatch[i]
               IN /\ m.checksum_cached_in_link # NoChecksum
                  /\ m.checksum_cached_in_link # m.checksum_loaded_file
         /\ (IsReadAfterWrite /\ ret.write_options.name_collisions = "Overwrite"
               /\ ret.write_options.alias = EmptyMap)
              => ret'.info.checksum_mismatch = <<>>]_vars

\* the graph gives one value to each (type, name)
RECURSIVE SubEntities(_)
RECURSIVE SubEntitiesFrom(_, _)
SubEntities(instance) == {instance} \cup SubEntitiesFrom(instance, 1)
SubEntitiesFrom(instance, i) ==
    IF i > Len(Fields(instance.type)) THEN {}
    ELSE LET f == Fields(instance.type)[i]
         IN (IF f.kind = "scalar" THEN {} ELSE SubEntities(instance[f.fname]))
            \cup SubEntitiesFrom(instance, i + 1)

OneValuePerName(instance) ==
    \A x \in SubEntities(instance), y \in SubEntities(instance) :
        (x.type = y.type /\ x.name = y.name) => x = y

\* the cache holds no handle, under the name of an entity of the graph, to a
\* value other than that entity
NoStaleEntry(c, hp, instance) ==
    \A x \in SubEntities(instance) :
        CacheGet(c, x.type, x.name) # None
            => DerefValue(hp, hp[CacheGet(c, x.type, x.name).arc]) = x

\* C6 as stated: after a successful Link-mode write of E, whatever the
\* collision policy and the prior content of the store, the read of E's name
\* returns a value equal to E.
C6_RoundTrip ==
    [][IsReadAfterWrite =>
         /\ ret'.ok
         /\ DerefValue(heap', ret'.val) = ret.instance]_vars

\* C6 (amended): after a successful Link-mode write of E with the policy
\* Overwrite and no alias for a name of E, where E gives one value to each
\* (type, name), the read of E's name returns a value equal to E, provided
\* the cache holds no handle to another value under the name of an entity of
\* E.
C6_RoundTripOverwrite ==
    [][(IsReadAfterWrite
          /\ ret.write_options.name_collisions = "Overwrite"
          /\ \A x \in SubEntities(ret.instance) :
                x.name \notin DOMAIN ret.write_options.alias
          /\ OneValuePerName(ret.instance)
          /\ NoStaleEntry(cache, heap, ret.instance)) =>
         /\ ret'.ok
         /\ DerefValue(heap', ret'.val) = ret.instance]_vars

\* a Shovel was read back equal to what was written although the cache held
\* a handle to an older value of its shaft, which the read evicted
C6_Witness ==
    /\ ret.op = "read_verbose"
    /\ ret.ok
    /\ ret.ty = "Shovel"
    /\ DerefValue(heap, ret.val) = Shovel(nameS, Material(2, nameA), Material(1, nameB))
    /\ Len(ret.res) = 1
    /\ ret.res[1].entry # None
    /\ heap[ret.res[1].entry.arc] # Material(2, nameA)
    /\ ret.res[1].arc # ret.res[1].entry.arc

----------------------------------------------------------------------------
(* Every operation of the manager on a small store.                        *)

Strs == {MaterialDoc(Material(1, nameA)), Garbage}

\* no fault, or the first File::create of the call fails
Fails == {NoFail, [NoFail EXCEPT !.create = 1]}

Next ==
    \/ \E wo \in {WriteOptionsDefault, OverwriteLink}, fail \in Fails :
          /\ Write(Shovel(nameS, Material(1, nameA), Material(1, nameA)), wo, fail)
          /\ Cardinality(DOMAIN files') <= MaxFiles
    \/ \E m \in Materials, wo \in {WriteOptionsDefault, OverwriteLink},
          fail \in Fails :
          /\ WriteVerbose(m, wo, fail)
          /\ Cardinality(DOMAIN files') <= MaxFiles
    \/ \E T \in {"Material", "Shovel"}, n \in {nameA, nameS} :
          /\ Read(T, n)
          /\ Len(heap') <= MaxArcs
    \/ /\ ReadVerbose("Shovel", nameS)
       /\ Len(heap') <= MaxArcs
    \/ \E T \in {"Material", "Shovel"}, str \in Strs :
          /\ FromStr(T, str)
          /\ Len(heap') <= MaxArcs
    \/ \E ty \in {"Material", "Shovel"}, n \in {nameA, nameS} :
          /\ exists(files, full_path_unchecked(ty, n))
          /\ Remove(ty, n, FALSE)
    \/ /\ CacheInsert(Material(2, nameA))
       /\ Len(heap') <= MaxArcs
    \/ \E m \in Materials :
          ExternalEdit(full_path_unchecked("Material", nameA), MaterialDoc(m))

Spec == Init /\ [][Next]_vars

\* C1 as stated: whenever write, write_verbose, read, read_verbose or
\* from_str has returned, with a value or with an error, neither thread
\* context is set.
C1_ContextsCleared ==
    ret.op \in {"write", "write_verbose", "read", "read_verbose", "from_str"}
        => (WRITE_CONTEXT = None /\ READ_CONTEXT = None)

----------------------------------------------------------------------------
(* Links written under AdjustName, checked under SpecRT.                   *)

\* C11: under AdjustName in Link mode, when the blade of a Shovel is stored
\* under an adjusted name because its canonical file existed, the link in
\* the Shovel's file names the file this write created, and the read of the
\* Shovel resolves the blade to the content of that file.
C11_LinkNamesAdjustedFile ==
    [][(IsReadAfterWrite
          /\ ret.write_options.name_collisions = "AdjustName"
          /\ ret.write_options.alias = EmptyMap
          /\ ret.ty = "Shovel"
          /\ ret.path = CanonicalPath(ret)
          /\ ret.trace[2].path
               # full_path_unchecked("Material", ret.instance.blade.name)) =>
         /\ full_path_unchecked("Material", files[ret.path].body.blade.name)
              = ret.trace[2].path
         /\ ret'.ok
         /\ ret'.val.blade = Decoded(files[ret.trace[2].path])]_vars

----------------------------------------------------------------------------
(* The encoding of a link field in Link mode, checked under SpecW.         *)

\* the content of the file at the path the i-th write of the call returned,
\* at the moment it returned: what the last write of the call so far stored
\* there, or what the store held before the call
FileAfter(fs, tr, i) ==
    LET js == {j \in 1..i : tr[j].path = tr[i].path /\ ~tr[j].kept}
    IN IF js = {} THEN fs[tr[i].path]
       ELSE tr[CHOOSE j \in js : \A k \in js : k <= j].data

\* C12: a successful Link-mode write of a Shovel writes the shaft and the
\* blade, in this order and before the Shovel, each through the context of
\* the call (same policy, same log) to a file of its own type; the Shovel is
\* encoded with, in place of each, a Link of exactly a name and a checksum,
\* the name being the entity's name and the checksum, always present, being
\* the checksum of the bytes of the file at the path that the nested write
\* returned.
C12_LinkModeWritesLink ==
    [][(ret'.op = "write_verbose" /\ ret'.ok /\ ret'.instance.type = "Shovel"
          /\ ret'.write_options.write_mode = "Link") =>
         LET tr == ret'.trace
             logged == ret'.info.created_files \o ret'.info.overwritten_files
                         \o ret'.info.kept_files
         IN /\ Len(tr) = 3
            /\ tr[3].path = ret'.path
            /\ tr[3].data.tag = "Shovel"
            /\ ~tr[3].kept => files'[ret'.path] = tr[3].data
            /\ Len(logged) = 3
            /\ \A i \in 1..2 :
                  LET f == Fields("Shovel")[i + 1].fname
                      e == ret'.instance[f]
                      link == tr[3].data.body[f]
                  IN /\ tr[i].data = MaterialDoc(e)
                     /\ tr[i].path.dir = "Material"
                     /\ exists(files', tr[i].path)
                     /\ InSeq(tr[i].path, logged)
                     /\ tr[i].kept =>
                           (ret'.write_options.name_collisions = "KeepExisting"
                              /\ InSeq(tr[i].path, ret'.info.kept_files))
                     /\ DOMAIN link = {"name", "checksum"}
                     /\ link.name = e.name
                     /\ link.checksum # NoChecksum
                     /\ link.checksum = adler32(FileBytes(FileAfter(files, tr, i)))]_vars

\* a Shovel was written under KeepExisting whose blade met the file of its
\* name holding another Material; the write returned that file's path and
\* the link carries the checksum of that file, not that of the blade's own
\* serialization
C12_Witness ==
    /\ ret.op = "write_verbose"
    /\ ret.ok
    /\ ret.instance.type = "Shovel"
    /\ ret.write_options.name_collisions = "KeepExisting"
    /\ ret.trace[2].kept
    /\ files[ret.trace[2].path] # ret.trace[2].data
    /\ files[ret.path].body.blade.checksum
         = adler32(FileBytes(files[ret.trace[2].path]))
    /\ files[ret.path].body.blade.checksum # adler32(FileBytes(ret.trace[2].data))

----------------------------------------------------------------------------
(* Flat and Link writes next to serde_yaml::to_string called outside the   *)
(* manager.                                                                *)

\* serde_yaml::to_string(&instance) called by the program itself: the derived
\* Serialize of the struct, its link fields going through serialize_link
\* with whatever WRITE_CONTEXT holds
PlainSerialize(instance) ==
    \E s \in {SerializeFields(WRITE_CONTEXT, instance,
                              [files |-> files, rw |-> RW_INFO, fail |-> NoFail,
                               trace |-> <<>>], 1, EmptyMap)} :
       /\ files' = s.st.files
       /\ RW_INFO' = s.st.rw
       /\ ret' = [op |-> "to_string", ty |-> type_name(instance), ok |-> s.ok,
                  err |-> NoError, path |-> None, info |-> None,
                  instance |-> instance, write_options |-> None,
                  name |-> NoName, val |-> s.doc, res |-> <<>>,
                  fail |-> NoFail, trace |-> s.st.trace, missing |-> <<>>]
       /\ UNCHANGED <<cache, heap, WRITE_CONTEXT, READ_CONTEXT, threads>>

FEntities ==
    {Material(1, nameA)}
      \cup {Shovel(nameS, Material(1, nameA), Material(2, nameA)),
            Shovel(nameS, Material(2, nameA), Material(1, nameB)),
            User(nameU, Shovel(nameS, Material(1, nameA), Material(1, nameA)))}

\* Flat with every policy, and the Link write that replaces what is there
FOptions ==
    [name_collisions : {"Overwrite", "KeepExisting", "AdjustName"},
     write_mode : {"Flat"}, alias : {EmptyMap}] \cup {OverwriteLink}

NextF ==
    \/ \E e \in FEntities, wo \in FOptions :
          /\ WriteVerbose(e, wo, NoFail)
          /\ Cardinality(DOMAIN files') <= MaxFiles
    \/ \E e \in FEntities : PlainSerialize(e)
    \/ \E ty \in {"Material", "Shovel"}, n \in {nameA, nameS} :
          /\ exists(files, full_path_unchecked(ty, n))
          /\ Remove(ty, n, FALSE)

SpecF == Init /\ [][NextF]_vars

\* the encoding of a struct whose fields carry no link attribute: every
\* field in place, entities nested
RECURSIVE InlineDoc(_)
InlineDoc(instance) ==
    [n \in FieldNames(instance.type) |->
        LET f == CHOOSE g \in {Fields(instance.type)[i] :
                                  i \in 1..Len(Fields(instance.type))} : g.fname = n
        IN IF f.kind = "scalar" THEN instance[n] ELSE InlineDoc(instance[n])]

\* C13: serialization outside the manager (no write context) encodes every
\* link field inline, as a struct without link attributes is encoded, and
\* touches neither the store nor the log; a Flat write encodes the root the
\* same way, performs one file write, the root's, leaves every other path of
\* the store as it was, logs one path, and adds one file when the root's path
\* was free.
C13_FlatIsPlain ==
    [][/\ (ret'.op = "to_string") =>
            /\ ret'.ok
            /\ ret'.val = InlineDoc(ret'.instance)
            /\ ret'.trace = <<>>
            /\ files' = files
            /\ RW_INFO' = RW_INFO
       /\ (ret'.op = "write_verbose" /\ ret'.write_options.write_mode = "Flat") =>
            LET tr == ret'.trace
                logged == ret'.info.created_files \o ret'.info.overwritten_files
                            \o ret'.info.kept_files
            IN /\ ret'.ok
               /\ Len(tr) = 1
               /\ tr[1].path = ret'.path
               /\ tr[1].data = [tag |-> ret'.instance.type,
                                body |-> InlineDoc(ret'.instance)]
               /\ FileBytes(tr[1].data)
                    = TagBytes(ret'.instance.type)
                        \o BodyBytes(ret'.instance.type, InlineDoc(ret'.instance), 1)
               /\ ~tr[1].kept => files'[ret'.path] = tr[1].data
               /\ tr[1].kept => files'[ret'.path] = files[ret'.path]
               /\ \A q \in (DOMAIN files \cup DOMAIN files') \ {ret'.path} :
                     q \in DOMAIN files /\ q \in DOMAIN files' /\ files'[q] = files[q]
               /\ logged = <<ret'.path>>
               /\ ~exists(files, CanonicalPath(ret')) =>
                     /\ ret'.info.created_files = <<CanonicalPath(ret')>>
                     /\ Cardinality(DOMAIN files') = Cardinality(DOMAIN files) + 1]_vars

\* a Flat write of a User stored the User, its Shovel and the Shovel's
\* Materials in one new file, on a store that held no Shovel and no Material
C13_Witness ==
    /\ ret.op = "write_verbose"
    /\ ret.ok
    /\ ret.write_options.write_mode = "Flat"
    /\ ret.instance.type = "User"
    /\ ret.info.created_files = <<ret.path>>
    /\ DOMAIN files = {ret.path}
    /\ files[ret.path].body.shovel.blade = [id |-> 1, name |-> nameA]

----------------------------------------------------------------------------
(* Reads of a Shovel whose links carry checksums other than those of their *)
(* targets, checked under SpecRT.                                          *)

\* the step is a read of a stored Shovel both of whose link fields hold a
\* Link to a file that exists (every Material file of the store decodes)
IsShovelRead ==
    /\ IsReadStep
    /\ ret'.ty = "Shovel"
    /\ exists(files, full_path_unchecked("Shovel", ret'.name))
    /\ \A f \in {"shaft", "blade"} :
          LET d == files[full_path_unchecked("Shovel", ret'.name)].body[f]
          IN IsLinkDoc(d) /\ exists(files, full_path_unchecked("Material", d.name))

\* the link's checksum is present and is not the checksum of its target
Mismatching(fs, d) ==
    /\ LinkChecksum(d) # NoChecksum
    /\ LinkChecksum(d) # checksum(fs, full_path_unchecked("Material", d.name))

\* the ReadInfo lists the mismatch of the link
Listed(info, fs, d) ==
    \E i \in DOMAIN info.checksum_mismatch :
        info.checksum_mismatch[i]
          = [checksum_cached_in_link |-> LinkChecksum(d),
             checksum_loaded_file |->
                 checksum(fs, full_path_unchecked("Material", d.name)),
             file_path |-> full_path_unchecked("Material", d.name)]

\* C14 as stated: the read succeeds, and every link whose checksum differs
\* from that of its target file is resolved to the value freshly loaded from
\* the file.
C14_MismatchLoadsFresh ==
    [][IsShovelRead =>
         /\ ret'.ok
         /\ \A f \in {"shaft", "blade"} :
               LET d == files[full_path_unchecked("Shovel", ret'.name)].body[f]
               IN Mismatching(files, d) =>
                    DerefValue(heap', ret'.val)[f]
                      = Decoded(files[full_path_unchecked("Material", d.name)])]_vars

\* the cache holds, under the link's type and name, a Material that
\* read_cache hands out for the link
ServedFromCache(c, hp, d) ==
    /\ CacheGet(c, "Material", d.name) # None
    /\ Reusable(CacheGet(c, "Material", d.name).checksum, LinkChecksum(d))
    /\ hp[CacheGet(c, "Material", d.name).arc].type = "Material"

\* C14 (amended): a checksum mismatch never makes a read fail.  A link field,
\* and an Arc link field that the cache does not serve, whose checksum
\* differs from that of the target file get the value freshly loaded from
\* the file, and the mismatch is listed in the ReadInfo of read_verbose.
\* An Arc link field that the cache serves gets the cached value, whatever
\* the file holds, and records nothing.
C14_MismatchNeverFails ==
    [][IsShovelRead =>
         LET body == files[full_path_unchecked("Shovel", ret'.name)].body
             hit == ServedFromCache(cache, heap, body.shaft)
         IN /\ ret'.ok
            /\ Mismatching(files, body.blade) =>
                  /\ ret'.val.blade
                       = Decoded(files[full_path_unchecked("Material", body.blade.name)])
                  /\ ret'.op = "read_verbose" => Listed(ret'.info, files, body.blade)
            /\ (Mismatching(files, body.shaft) /\ ~hit) =>
                  /\ heap'[ret'.val.shaft.arc]
                       = Decoded(files[full_path_unchecked("Material", body.shaft.name)])
                  /\ ret'.op = "read_verbose" => Listed(ret'.info, files, body.shaft)
            /\ hit =>
                  /\ ret'.val.shaft.arc = CacheGet(cache, "Material", body.shaft.name).arc
                  /\ ret'.res[1].logged = 0
                  /\ (ret'.op = "read_verbose" /\ ~Mismatching(files, body.blade)
                        /\ LinkChecksum(body.blade) # NoChecksum)
                       => Len(ret'.info.checksum_mismatch) = 1]_vars

\* a read_verbose succeeded on a Shovel whose blade link carried a checksum
\* other than that of its target and whose shaft link, mismatching as well,
\* was served from the cache with a value other than the file's
C14_Witness ==
    /\ ret.op = "read_verbose"
    /\ ret.ok
    /\ ret.ty = "Shovel"
    /\ exists(files, full_path_unchecked("Shovel", ret.name))
    /\ LET body == files[full_path_unchecked("Shovel", ret.name)].body
       IN /\ Mismatching(files, body.blade)
          /\ Listed(ret.info, files, body.blade)
          /\ Mismatching(files, body.shaft)
          /\ ret.res[1].entry # None
          /\ ret.res[1].arc = ret.res[1].entry.arc
          /\ heap[ret.val.shaft.arc]
               # Decoded(files[full_path_unchecked("Material", body.shaft.name)])

----------------------------------------------------------------------------
(* serde_yaml::from_str called outside the manager, next to writes and     *)
(* removals that change the store.                                         *)

\* serde_yaml::from_str::<T>(text) called by the program itself: the derived
\* Deserialize of T, its link fields going through the link hooks with
\* whatever READ_CONTEXT holds; ret.instance keeps the text
PlainDeserialize(T, body) ==
    \E r \in {DeserializeFields(READ_CONTEXT, T, body, files,
                                [cache |-> cache, heap |-> heap, rw |-> RW_INFO,
                                 res |-> <<>>, missing |-> <<>>], 1, [type |-> T])} :
       /\ cache' = r.st.cache
       /\ heap' = r.st.heap
       /\ RW_INFO' = r.st.rw
       /\ ret' = [op |-> "serde_from_str", ty |-> T, ok |-> r.ok, err |-> r.err,
                  path |-> None, info |-> None, instance |-> body,
                  write_options |-> None, name |-> NoName, val |-> r.val,
                  res |-> r.st.res, fail |-> NoFail, trace |-> <<>>,
                  missing |-> r.st.missing]
       /\ UNCHANGED <<files, WRITE_CONTEXT, READ_CONTEXT, threads>>

ShovelBody(shaft, blade) == [name |-> nameS, shaft |-> shaft, blade |-> blade]

\* what a link field of a Shovel text holds: a Material in place, or a Link
\* with or without a checksum
DFieldDocs ==
    {MaterialDoc(m).body : m \in Materials}
      \cup {LinkDoc(nameA, adler32(FileBytes(MaterialDoc(Material(1, nameA))))),
            [name |-> nameA]}

DBodies == {ShovelBody(x, y) : x \in DFieldDocs, y \in DFieldDocs}

NextD ==
    \/ \E body \in DBodies :
          /\ PlainDeserialize("Shovel", body)
          /\ Len(heap') <= MaxArcs
    \/ \E m \in Materials :
          /\ WriteVerbose(m, OverwriteLink, NoFail)
          /\ Cardinality(DOMAIN files') <= MaxFiles
    \/ /\ exists(files, full_path_unchecked("Material", nameA))
       /\ Remove("Material", nameA, FALSE)

SpecD == Init /\ [][NextD]_vars

\* C15: with no read context open, a Shovel text whose link fields both hold
\* a Material in place decodes to these Materials, whatever the store holds,
\* and changes neither the cache nor the log; a text one of whose link fields
\* holds a Link fails with the error of kind Other raised for the missing
\* context, resolves nothing and reads no file.
C15_NoContextDecoding ==
    [][(ret'.op = "serde_from_str" /\ READ_CONTEXT = None) =>
         LET body == ret'.instance
             linked == {f \in {"shaft", "blade"} : IsLinkDoc(body[f])}
         IN /\ files' = files
            /\ cache' = cache
            /\ ret'.res = <<>>
            /\ ret'.missing = <<>>
            /\ linked = {} =>
                  /\ ret'.ok
                  /\ RW_INFO' = RW_INFO
                  /\ DerefValue(heap', ret'.val)
                       = Shovel(body.name,
                                Material(body.shaft.id, body.shaft.name),
                                Material(body.blade.id, body.blade.name))
            /\ linked # {} =>
                  /\ ~ret'.ok
                  /\ ret'.err = "Other"]_vars

\* a text whose shaft is a Material in place and whose blade is a Link failed
\* for the missing context, on a store that holds the Material the Link
\* names and after an earlier text was decoded
C15_Witness ==
    /\ ret.op = "serde_from_str"
    /\ ~ret.ok
    /\ ret.err = "Other"
    /\ IsLinkDoc(ret.instance.blade)
    /\ ~IsLinkDoc(ret.instance.shaft)
    /\ exists(files, full_path_unchecked("Material", ret.instance.blade.name))
    /\ Len(heap) >= 2
    /\ READ_CONTEXT = None

----------------------------------------------------------------------------
(* Reads of a User, of its Shovel and of a Shovel's Materials on a store   *)
(* from which files are removed.                                           *)

SEntities ==
    {User(nameU, Shovel(nameS, Material(1, nameA), Material(1, nameA))),
     Shovel(nameS, Material(1, nameA), Material(1, nameB))}

NextS ==
    \/ \E e \in SEntities :
          /\ WriteVerbose(e, OverwriteLink, NoFail)
          /\ Cardinality(DOMAIN files') <= MaxFiles
    \/ \E ty \in {"Material", "Shovel", "User"}, n \in {nameA, nameB, nameS, nameU} :
          /\ exists(files, full_path_unchecked(ty, n))
          /\ Remove(ty, n, FALSE)
    \/ \E T \in {"User", "Shovel"} :
          /\ ReadVerbose(T, IF T = "User" THEN nameU ELSE nameS)
          /\ Len(heap') <= MaxArcs

SpecS == Init /\ [][NextS]_vars

\* the file of (T, name) is missing, or the file of a Link reachable from it
\* through the Links of the files is
RECURSIVE MissingRef(_, _, _)
MissingRef(fs, T, name) ==
    \/ ~exists(fs, full_path_unchecked(T, name))
    \/ \E i \in DOMAIN Fields(T) :
          LET f == Fields(T)[i]
              d == fs[full_path_unchecked(T, name)].body[f.fname]
          IN f.kind # "scalar" /\ IsLinkDoc(d) /\ MissingRef(fs, f.ty, d.name)

\* C16 as stated: a read of an entity whose file, or the file of a Link at
\* any depth below it, does not exist fails with the kind NotFound.
C16_MissingIsNotFound ==
    [][(IsReadStep /\ MissingRef(files, ret'.ty, ret'.name)) =>
         (~ret'.ok /\ ret'.err = "NotFound")]_vars

\* read_cache hands out a handle for the Arc link d to a T
CacheServes(c, hp, T, d) ==
    /\ CacheGet(c, T, d.name) # None
    /\ Reusable(CacheGet(c, T, d.name).checksum, LinkChecksum(d))
    /\ hp[CacheGet(c, T, d.name).arc].type = T

\* as MissingRef, not following the Arc links that the cache serves
RECURSIVE MissingMet(_, _, _, _, _)
MissingMet(fs, c, hp, T, name) ==
    \/ ~exists(fs, full_path_unchecked(T, name))
    \/ \E i \in DOMAIN Fields(T) :
          LET f == Fields(T)[i]
              d == fs[full_path_unchecked(T, name)].body[f.fname]
          IN /\ f.kind # "scalar"
             /\ IsLinkDoc(d)
             /\ ~(f.kind = "arc" /\ CacheServes(c, hp, f.ty, d))
             /\ MissingMet(fs, c, hp, f.ty, d.name)

\* C16 (amended): a read whose root file does not exist fails with the kind
\* NotFound; a read whose root file exists and that meets, at any depth, a
\* Link whose file does not exist fails with the kind InvalidData; an Arc
\* link that the cache serves is not looked up, and the read of a store whose
\* every looked-up file exists succeeds.
C16_MissingRootOrTarget ==
    [][IsReadStep =>
         LET root == full_path_unchecked(ret'.ty, ret'.name)
         IN /\ ~exists(files, root) =>
                  (~ret'.ok /\ ret'.err = "NotFound" /\ ret'.missing = <<root>>)
            /\ (exists(files, root)
                  /\ MissingMet(files, cache, heap, ret'.ty, ret'.name)) =>
                  (~ret'.ok /\ ret'.err = "InvalidData" /\ Len(ret'.missing) = 1)
            /\ (exists(files, root)
                  /\ ~MissingMet(files, cache, heap, ret'.ty, ret'.name)) =>
                  (ret'.ok /\ ret'.missing = <<>>)]_vars

\* the read of a User failed on the missing Material of its Shovel, two
\* links below the root
C16_Witness ==
    /\ ret.op = "read_verbose"
    /\ ret.ty = "User"
    /\ ~ret.ok
    /\ ret.err = "InvalidData"
    /\ ret.missing = <<full_path_unchecked("Material", nameA)>>
    /\ exists(files, full_path_unchecked("User", nameU))
    /\ exists(files, full_path_unchecked("Shovel", nameS))

----------------------------------------------------------------------------
(* Reads of a Shovel whose file is edited from outside so that its link    *)
(* fields hold maps of every shape.                                        *)

\* what a link field of the Shovel's file may hold: a Link with a checksum,
\* a Link without one, a Link with one more field, a Material in place, and
\* a map that lacks a field of a Material
LShapes ==
    {LinkDoc(nameA, adler32(FileBytes(MaterialDoc(Material(1, nameA))))),
     [name |-> nameA],
     [name |-> nameA, checksum |-> NoChecksum, id |-> 2],
     MaterialDoc(Material(2, nameA)).body,
     [id |-> 2]}

InitL ==
    /\ files = StoreAfter(EmptyMap,
                          <<Shovel(nameS, Material(1, nameA), Material(1, nameA))>>,
                          OverwriteLink)
    /\ cache = EmptyMap
    /\ heap = <<>>
    /\ WRITE_CONTEXT = None
    /\ READ_CONTEXT = None
    /\ RW_INFO = RwInfoDefault
    /\ ret = RetInit
    /\ threads = ThreadsInit

NextL ==
    \/ \E x \in LShapes, y \in LShapes :
          ExternalEdit(full_path_unchecked("Shovel", nameS),
                       [tag |-> "Shovel", body |-> ShovelBody(x, y)])
    \/ /\ ReadVerbose("Shovel", nameS)
       /\ Len(heap') <= MaxArcs

SpecL == InitL /\ [][NextL]_vars

\* the shape of a map by its fields alone
ShapeOf(d) ==
    CASE DOMAIN d \in {{"name"}, {"name", "checksum"}} -> "link"
      [] DOMAIN d = {"id", "name"} -> "entity"
      [] OTHER -> "neither"

\* C17: the map in a link field of a Shovel is treated as a Link, and
\* resolved to the target's value, exactly when its fields are name, or name
\* and checksum; a map with the fields of a Material is decoded in place; a
\* map of neither shape, a Link with one more field among them, makes the
\* read fail with the kind InvalidData.  (The message of the error is
\* composed by the derive DeserializeUntaggedVerboseError and the types of
\* the field values are checked by serde; neither is part of this model.)
C17_LinkOrEntityByShape ==
    [][(IsReadStep /\ ret'.ty = "Shovel") =>
         LET body == files[full_path_unchecked("Shovel", ret'.name)].body
             target == full_path_unchecked("Material", nameA)
         IN /\ (\E f \in {"shaft", "blade"} : ShapeOf(body[f]) = "neither") =>
                  (~ret'.ok /\ ret'.err = "InvalidData")
            /\ (\A f \in {"shaft", "blade"} : ShapeOf(body[f]) # "neither") =>
                  /\ ret'.ok
                  /\ Len(ret'.res) = IF ShapeOf(body.shaft) = "link" THEN 1 ELSE 0
                  /\ \A f \in {"shaft", "blade"} :
                        /\ ShapeOf(body[f]) = "link" =>
                              DerefValue(heap', ret'.val)[f] = Decoded(files[target])
                        /\ ShapeOf(body[f]) = "entity" =>
                              DerefValue(heap', ret'.val)[f]
                                = Material(body[f].id, body[f].name)]_vars

\* a Shovel was read whose shaft was a Link without a checksum, resolved to
\* the target's value, and whose blade was a Material in place with another
\* value than the file of its name
C17_Witness ==
    /\ ret.op = "read_verbose"
    /\ ret.ok
    /\ files[full_path_unchecked("Shovel", nameS)].body.shaft = [name |-> nameA]
    /\ files[full_path_unchecked("Shovel", nameS)].body.blade = [id |-> 2, name |-> nameA]
    /\ ret.val.blade = Material(2, nameA)
    /\ Len(ret.res) = 1
    /\ heap[ret.val.shaft.arc] = Material(1, nameA)
    /\ files[full_path_unchecked("Material", nameA)] = MaterialDoc(Material(1, nameA))

----------------------------------------------------------------------------
(* Writes during which the file system refuses one operation.              *)

MaxFault == 3

EEntities ==
    {Material(1, nameA),
     Shovel(nameS, Material(1, nameA), Material(1, nameA)),
     Shovel(nameS, Material(2, nameA), Material(1, nameB))}

\* the two policies that write to the canonical path
EOptions == {OverwriteLink, WriteOptionsDefault}

\* no fault; the k-th File::create fails; the k-th write_all fails, and the
\* remove_file of the cleanup succeeds or fails
EFails ==
    {NoFail}
      \cup {[NoFail EXCEPT !.create = k] : k \in 1..MaxFault}
      \cup {[create |-> 0, write_all |-> k, remove |-> r] :
               k \in 1..MaxFault, r \in BOOLEAN}

NextE ==
    \/ \E e \in EEntities, wo \in EOptions, fail \in EFails :
          /\ WriteVerbose(e, wo, fail)
          /\ Cardinality(DOMAIN files') <= MaxFiles
    \/ \E ty \in {"Material", "Shovel"}, n \in {nameA, nameB, nameS} :
          /\ exists(files, full_path_unchecked(ty, n))
          /\ Remove(ty, n, FALSE)

SpecE == Init /\ [][NextE]_vars

\* the step is a write_verbose whose last write came to its file and failed
IsFailedWrite ==
    /\ ret'.op = "write_verbose"
    /\ ret'.trace # <<>>
    /\ ~ret'.trace[Len(ret'.trace)].done

\* the error the top-level call returns when the failing write returned err:
\* the root's write returns it as it is, the write of a link field has it
\* wrapped by the serializer
Surfaced(r, err) ==
    IF r.trace[Len(r.trace)].data.tag = r.instance.type
         /\ Len(r.trace) = GraphSize(r.instance)
    THEN err ELSE "Other"

\* C18 as stated: when write_all fails, the file is deleted, no file remains
\* at the target path and the error of write_all is returned.
C18_PartialFileDeleted ==
    [][(IsFailedWrite /\ ret'.fail.write_all > 0) =>
         /\ ~ret'.ok
         /\ ~exists(files', ret'.trace[Len(ret'.trace)].path)
         /\ ret'.err = Surfaced(ret', "WriteFailed")]_vars

\* C18 (amended): when write_all fails and the removal of the file succeeds,
\* no file remains at the target path, whatever it held before, and the
\* error of write_all is returned; when the removal fails as well, the file
\* stays with its partial content and the error of the removal is returned
\* in place of the error of write_all.
C18_PartialFileDeletedIfRemovable ==
    [][(IsFailedWrite /\ ret'.fail.write_all > 0) =>
         LET file_path == ret'.trace[Len(ret'.trace)].path
         IN /\ ~ret'.ok
            /\ ~ret'.fail.remove =>
                  /\ ~exists(files', file_path)
                  /\ ret'.err = Surfaced(ret', "WriteFailed")
            /\ ret'.fail.remove =>
                  /\ exists(files', file_path)
                  /\ files'[file_path] = PartialData
                  /\ ret'.err = Surfaced(ret', "RemoveFailed")]_vars

\* the write_all of a Shovel's own file failed after its two Materials were
\* written; the Shovel's file is not there and the Materials' files are
C18_Witness ==
    /\ ret.op = "write_verbose"
    /\ ~ret.ok
    /\ ret.err = "WriteFailed"
    /\ ret.fail.write_all = 3
    /\ Len(ret.trace) = 3
    /\ ~ret.trace[3].done
    /\ ~exists(files, ret.trace[3].path)
    /\ exists(files, ret.trace[1].path)
    /\ exists(files, ret.trace[2].path)

\* C19 as stated: a call one of whose writes fails returns an error; the
\* writes that came to their files are those of the first entities of the
\* graph in the order of serialization, the failing one being the last; no
\* other path of the store changes; and every path a completed write
\* returned holds what the last completed write to it left there.
C19_NothingRolledBack ==
    [][IsFailedWrite =>
         LET tr == ret'.trace
             n == Len(tr)
         IN /\ ~ret'.ok
            /\ n <= GraphSize(ret'.instance)
            /\ \A i \in 1..(n - 1) : tr[i].done
            /\ tr[n].data.tag = "Shovel" => n = 3
            /\ ret'.instance.type = "Shovel" =>
                  /\ n >= 1 => tr[1].data = MaterialDoc(ret'.instance.shaft)
                  /\ n >= 2 => tr[2].data = MaterialDoc(ret'.instance.blade)
            /\ \A q \in (DOMAIN files \cup DOMAIN files') \ {tr[i].path : i \in 1..n} :
                  q \in DOMAIN files /\ q \in DOMAIN files' /\ files'[q] = files[q]
            /\ \A i \in 1..(n - 1) :
                  (\A j \in (i + 1)..(n - 1) : tr[j].path # tr[i].path) =>
                     /\ exists(files', tr[i].path)
                     /\ files'[tr[i].path] = FileAfter(files, tr, i)]_vars

\* C19 (amended): as C19, for the paths other than that of the failing write.
\* The path of the failing write is left as it was before that write when
\* File::create failed; when write_all failed, the file there is removed, or
\* left with partial content when the removal failed, also when a completed
\* write of the same call had stored it.
C19_NothingRolledBackElsewhere ==
    [][IsFailedWrite =>
         LET tr == ret'.trace
             n == Len(tr)
             before == {i \in 1..(n - 1) : tr[i].path = tr[n].path}
         IN /\ ~ret'.ok
            /\ n <= GraphSize(ret'.instance)
            /\ \A i \in 1..(n - 1) : tr[i].done
            /\ tr[n].data.tag = "Shovel" => n = 3
            /\ ret'.instance.type = "Shovel" =>
                  /\ n >= 1 => tr[1].data = MaterialDoc(ret'.instance.shaft)
                  /\ n >= 2 => tr[2].data = MaterialDoc(ret'.instance.blade)
            /\ \A q \in (DOMAIN files \cup DOMAIN files') \ {tr[i].path : i \in 1..n} :
                  q \in DOMAIN files /\ q \in DOMAIN files' /\ files'[q] = files[q]
            /\ \A i \in 1..(n - 1) :
                  (tr[i].path # tr[n].path
                     /\ \A j \in (i + 1)..(n - 1) : tr[j].path # tr[i].path) =>
                     /\ exists(files', tr[i].path)
                     /\ files'[tr[i].path] = FileAfter(files, tr, i)
            /\ ret'.fail.create > 0 =>
                  IF before # {}
                  THEN /\ exists(files', tr[n].path)
                       /\ files'[tr[n].path]
                            = FileAfter(files, tr, CHOOSE i \in before :
                                                      \A j \in before : j <= i)
                  ELSE exists(files', tr[n].path) <=> exists(files, tr[n].path)
            /\ (ret'.fail.write_all > 0 /\ ~ret'.fail.remove) =>
                  ~exists(files', tr[n].path)
            /\ (ret'.fail.write_all > 0 /\ ret'.fail.remove) =>
                  (exists(files', tr[n].path) /\ files'[tr[n].path] = PartialData)]_vars

\* the write of a Shovel's blade failed after the shaft was written to
\* another path; the shaft's file holds the shaft and the Shovel's own file
\* was not written
C19_Witness ==
    /\ ret.op = "write_verbose"
    /\ ~ret.ok
    /\ ret.instance.type = "Shovel"
    /\ Len(ret.trace) = 2
    /\ ~ret.trace[2].done
    /\ ~ret.trace[1].kept
    /\ ret.trace[1].path # ret.trace[2].path
    /\ files[ret.trace[1].path] = MaterialDoc(Material(2, nameA))
    /\ ~exists(files, full_path_unchecked("Shovel", nameS))

----------------------------------------------------------------------------
(* Sequences of the five top-level calls on one thread, and the diagnostics *)
(* they return.                                                            *)

MaxLog == 2

\* texts handed to from_str: a Shovel whose shaft is a Material in place and
\* whose blade is a Link with a checksum, a Shovel of two such Links, and a
\* text that does not parse
IStrs ==
    LET link == LinkDoc(nameA, adler32(FileBytes(MaterialDoc(Material(1, nameA)))))
    IN {[tag |-> "Shovel", body |-> ShovelBody(MaterialDoc(Material(1, nameA)).body, link)],
        [tag |-> "Shovel", body |-> ShovelBody(link, link)],
        Garbage}

NextI ==
    \/ \E e \in Materials \cup {Shovel(nameS, Material(1, nameA), Material(1, nameA))} :
          /\ WriteVerbose(e, OverwriteLink, NoFail)
          /\ Cardinality(DOMAIN files') <= MaxFiles
    \/ /\ Write(Shovel(nameS, Material(2, nameA), Material(2, nameA)),
                WriteOptionsDefault, NoFail)
       /\ Cardinality(DOMAIN files') <= MaxFiles
    \/ /\ Read("Material", nameA)
       /\ Len(heap') <= MaxArcs
    \/ /\ ReadVerbose("Shovel", nameS)
       /\ Len(heap') <= MaxArcs
    \/ \E str \in IStrs :
          /\ FromStr("Shovel", str)
          /\ Len(heap') <= MaxArcs
          /\ Len(RW_INFO'.checksum_mismatch) <= MaxLog

SpecI == Init /\ [][NextI]_vars

\* what the call that returned r' records when RW_INFO holds nothing at its
\* start
InfoOfCall(r) ==
    IF r.op = "read_verbose"
    THEN take_read_info(
             ReadContext_read(ReadContext_new(TRUE), r.ty, r.name, files,
                              [cache |-> cache, heap |-> heap, rw |-> RwInfoDefault,
                               res |-> <<>>, missing |-> <<>>]).st.rw).info
    ELSE take_write_info(
             WriteContext_write(WriteContext_new(r.write_options, TRUE), r.instance,
                                [files |-> files, rw |-> RwInfoDefault,
                                 fail |-> r.fail, trace |-> <<>>]).st.rw).info

\* C20 as stated: whatever calls came before, the WriteInfo of a
\* write_verbose and the ReadInfo of a read_verbose list what this call
\* recorded and nothing else.
C20_InfoOfThisCallOnly ==
    [][(ret'.op \in {"read_verbose", "write_verbose"} /\ ret'.ok) =>
         ret'.info = InfoOfCall(ret')]_vars
----------------------------------------------------------------------------
(* Removals of keys that are and that are not in the store, next to writes. *)

XKeys == {<<"Material", nameA>>, <<"Material", nameB>>, <<"Shovel", nameS>>}

NextX ==
    \/ \E e \in Materials \cup {Shovel(nameS, Material(1, nameA), Material(1, nameA))},
          wo \in {o \in WOptions : o.alias = EmptyMap} :
          /\ WriteVerbose(e, wo, NoFail)
          /\ Cardinality(DOMAIN files') <= MaxFiles
    \/ \E key \in XKeys, refused \in BOOLEAN : Remove(key[1], key[2], refused)

SpecX == Init /\ [][NextX]_vars

\* C29 as stated: remove(key) deletes the file derived from the key; it
\* returns an error when the file does not exist and when the file cannot be
\* removed; after a remove that returned Ok, exists(key) is false.
C29_RemoveErrorsWhenMissing ==
    [][ret'.op = "remove" =>
         LET file_path == full_path_unchecked(ret'.ty, ret'.name)
         IN /\ ret'.path = file_path
            /\ ~exists(files, file_path) => ~ret'.ok
            /\ (exists(files, file_path) /\ ret'.fail.remove) =>
                  (~ret'.ok /\ files' = files)
            /\ (exists(files, file_path) /\ ~ret'.fail.remove) =>
                  (ret'.ok /\ files' = [p \in DOMAIN files \ {file_path} |-> files[p]])
            /\ ret'.ok => ~exists(files', file_path)]_vars
----------------------------------------------------------------------------
(* The cache under manual entries: handles the program inserts with        *)
(* CacheEntry::insert or stores itself through cache_mut, next to reads of *)
(* a Stool whose legs are Arc links to one Material.                       *)

\* the Material the program inserts: no file of the store ever holds it
Manual == Material(3, nameA)

\* a Shovel that has the name of the Material
ShovelA == Shovel(nameA, Material(1, nameA), Material(1, nameA))

CLinks ==
    {LinkDoc(nameA, adler32(FileBytes(MaterialDoc(m)))) : m \in Materials}
      \cup {[name |-> nameA]}

InitC ==
    /\ files = StoreAfter(EmptyMap,
                          <<Stool(nameT, Material(1, nameA), Material(1, nameA))>>,
                          OverwriteLink)
    /\ cache = EmptyMap
    /\ heap = <<>>
    /\ WRITE_CONTEXT = None
    /\ READ_CONTEXT = None
    /\ RW_INFO = RwInfoDefault
    /\ ret = RetInit
    /\ threads = ThreadsInit

NextC ==
    \/ /\ ReadVerbose("Stool", nameT)
       /\ Len(heap') <= MaxArcs
    \/ \E l1 \in CLinks, l2 \in CLinks :
          ExternalEdit(full_path_unchecked("Stool", nameT), StoolDoc(l1, l2))
    \/ \E m \in Materials :
          ExternalEdit(full_path_unchecked("Material", nameA), MaterialDoc(m))
    \/ \E instance \in {Manual, ShovelA} :
          /\ CacheInsert(instance)
          /\ Len(heap') <= MaxArcs
    \/ /\ CacheMutInsert("Material", ShovelA)
       /\ Len(heap') <= MaxArcs
    \/ /\ exists(files, full_path_unchecked("Material", nameA))
       /\ Remove("Material", nameA, FALSE)

SpecC == InitC /\ [][NextC]_vars

\* the links to the target of s[i] that the call resolved after s[i]
LaterSame(s, i) == {j \in DOMAIN s : j > i /\ SameTarget(s[j], s[i])}

\* the cache holds entry e for the target of s[i] once s[i] is resolved: the
\* next link of the call to that target finds e and, when there is none, the
\* cache holds e when the call returns
HoldsAfter(s, i, c, e) ==
    IF LaterSame(s, i) = {} THEN CacheGet(c, s[i].ty, s[i].name) = e
    ELSE s[CHOOSE j \in LaterSame(s, i) : \A k \in LaterSame(s, i) : j <= k].entry = e

\* C21: once the program has inserted a handle with CacheEntry::insert, the
\* entry carries no checksum, and every read resolves every Arc link to the
\* entry's (type, name) to that very handle, whatever checksum the link
\* carries and whatever the store holds, records no mismatch for it and
\* leaves the entry in the cache.
C21_ManualEntryAlwaysReused ==
    [][IsReadStep =>
         \A i \in DOMAIN ret'.res :
            LET r == ret'.res[i]
            IN (r.entry # None /\ heap'[r.entry.arc] = Manual) =>
                  /\ r.entry.checksum = NoChecksum
                  /\ r.arc = r.entry.arc
                  /\ r.logged = 0
                  /\ HoldsAfter(ret'.res, i, cache', r.entry)]_vars

\* one read resolved two links that carry different checksums, neither that
\* of the target file, to the handle the program had inserted
C21_Witness ==
    /\ ret.op = "read_verbose"
    /\ ret.ok
    /\ Len(ret.res) = 2
    /\ ret.res[1].checksum # NoChecksum
    /\ ret.res[2].checksum \notin {NoChecksum, ret.res[1].checksum}
    /\ ret.res[1].arc = ret.res[2].arc
    /\ heap[ret.res[1].arc] = Manual
    /\ CacheGet(cache, "Material", nameA) = [arc |-> ret.res[1].arc, checksum |-> NoChecksum]
    /\ ~exists(files, full_path_unchecked("Material", nameA))

\* C22: when a read resolves an Arc link for which the cache holds no entry,
\* or an entry that fails the reuse rule, and reads the target, the handle it
\* returns is new, holds the value decoded from the target file, and the
\* cache then holds for (type, name) that handle paired with the checksum of
\* the link, or with none when the link carries none.
C22_FreshReadIsCached ==
    [][IsReadStep =>
         \A i \in DOMAIN ret'.res :
            LET r == ret'.res[i]
                file_path == full_path_unchecked(r.ty, r.name)
            IN ((r.entry = None \/ ~Reusable(r.entry.checksum, r.checksum))
                  /\ r.arc # NoArc) =>
                  /\ r.arc > Len(heap)
                  /\ heap'[r.arc] = Decoded(files[file_path])
                  /\ HoldsAfter(ret'.res, i, cache',
                                [arc |-> r.arc, checksum |-> r.checksum])]_vars

\* one read found an entry with another checksum than the first link's,
\* evicted it and cached the new handle with the checksum of the link; the
\* second link, without a checksum, took that handle
C22_Witness ==
    /\ ret.op = "read_verbose"
    /\ ret.ok
    /\ Len(ret.res) = 2
    /\ ret.res[1].entry # None
    /\ ret.res[1].entry.checksum \notin {NoChecksum, ret.res[1].checksum}
    /\ ret.res[1].checksum # NoChecksum
    /\ ret.res[1].arc \notin {NoArc, ret.res[1].entry.arc}
    /\ ret.res[2].checksum = NoChecksum
    /\ ret.res[2].entry = [arc |-> ret.res[1].arc, checksum |-> ret.res[1].checksum]
    /\ ret.res[2].arc = ret.res[1].arc
    /\ CacheGet(cache, "Material", nameA) = ret.res[2].entry

\* the entry passes the reuse rule for the link and its handle is not a
\* handle to a value of the link's type
Undowncastable(r, hp) ==
    /\ r.entry # None
    /\ Reusable(r.entry.checksum, r.checksum)
    /\ hp[r.entry.arc].type # r.ty

\* C27 as stated: a read that meets a cache entry which passes the reuse rule
\* and whose handle cannot be downcast to the type of the link returns no
\* value.
C27_TypeMismatchFails ==
    [][IsReadStep =>
         ((\E i \in DOMAIN ret'.res : Undowncastable(ret'.res[i], heap'))
             => ~ret'.ok)]_vars

\* C27 (amended): a cache entry that passes the reuse rule and whose handle
\* cannot be downcast to the type of the link is passed over as if the cache
\* held no entry for the link: the target is read from its file into a new
\* handle, which is returned and replaces the entry, paired with the checksum
\* of the link, and the read goes on; no error arises from the entry, and
\* the read fails only when the target file cannot be read, the entry then
\* being left in the cache.
C27_TypeMismatchReadsFresh ==
    [][IsReadStep =>
         \A i \in DOMAIN ret'.res :
            LET r == ret'.res[i]
                file_path == full_path_unchecked(r.ty, r.name)
            IN Undowncastable(r, heap') =>
                 IF exists(files, file_path)
                      /\ files[file_path].tag = r.ty
                 THEN /\ r.arc > Len(heap)
                      /\ heap'[r.arc] = Decoded(files[file_path])
                      /\ HoldsAfter(ret'.res, i, cache',
                                    [arc |-> r.arc, checksum |-> r.checksum])
                      /\ (\A j \in DOMAIN ret'.res : ret'.res[j].arc # NoArc) => ret'.ok
                 ELSE /\ r.arc = NoArc
                      /\ ~ret'.ok
                      /\ ret'.err = "InvalidData"
                      /\ CacheGet(cache', r.ty, r.name) = r.entry]_vars

\* a read met, for its first link, a Shovel stored under the Material's type
\* and name, read the Material from its file, returned it and cached it
C27_Witness ==
    /\ ret.op = "read_verbose"
    /\ ret.ok
    /\ Len(ret.res) = 2
    /\ ret.res[1].entry # None
    /\ heap[ret.res[1].entry.arc] = ShovelA
    /\ ret.res[1].arc # ret.res[1].entry.arc
    /\ heap[ret.res[1].arc].type = "Material"
    /\ heap[ret.val.leg_1.arc]
         = Decoded(files[full_path_unchecked("Material", nameA)])

\* the step is a call of CacheEntry::insert; ret' is what it returned
IsInsertStep == ret'.op = "cache_insert" /\ Len(heap') = Len(heap) + 1

\* what CacheEntry::insert leaves in the cache and the heap
Inserted(r) ==
    LET T == r.instance.type
        name == r.instance.name
        arc == Len(heap) + 1
    IN /\ heap' = Append(heap, r.instance)
       /\ CacheGet(cache', T, name) = [arc |-> arc, checksum |-> NoChecksum]
       /\ \A T2 \in EntityTypes, n2 \in {nameA, nameB, nameS, nameT} :
             <<T2, n2>> # <<T, name>> =>
                CacheGet(cache', T2, n2) = CacheGet(cache, T2, n2)

----------------------------------------------------------------------------
(* from_str on texts with links, checked under SpecI.                      *)

\* C26 as stated: from_str of a Shovel text whose links name stored files
\* returns a Shovel: a Material in place is returned as it is, the blade's
\* Link is resolved to the value of the file of (Material, name), the value
\* read returns for that name, and no file is looked up for the root.
C26_FromStrResolves ==
    [][(ret'.op = "from_str" /\ ret'.instance.tag = "Shovel"
          /\ exists(files, full_path_unchecked("Material", nameA))) =>
         LET body == ret'.instance.body
             target == full_path_unchecked("Material", body.blade.name)
         IN /\ ret'.ok
            /\ ret'.missing = <<>>
            /\ files' = files
            /\ ret'.val.name = body.name
            /\ IsLinkDoc(body.blade) => ret'.val.blade = Decoded(files[target])
            /\ ~IsLinkDoc(body.shaft) =>
                  heap'[ret'.val.shaft.arc] = Material(body.shaft.id, body.shaft.name)]_vars

----------------------------------------------------------------------------
(* Link-mode writes of a User, whose Shovel links two Materials, under the *)
(* three collision policies: the order of the file writes and of the log.  *)

NEntities ==
    {User(nameU, Shovel(nameS, Material(1, nameA), Material(2, nameA))),
     User(nameU, Shovel(nameS, Material(1, nameA), Material(1, nameA))),
     Shovel(nameS, Material(2, nameA), Material(1, nameB)),
     Material(1, nameA)}

NextN ==
    \/ \E e \in NEntities, wo \in {o \in WOptions : o.alias = EmptyMap} :
          /\ WriteVerbose(e, wo, NoFail)
          /\ Cardinality(DOMAIN files') <= MaxFiles
    \/ \E ty \in {"Material", "Shovel", "User"}, n \in {nameA, nameB, nameS, nameU} :
          /\ exists(files, full_path_unchecked(ty, n))
          /\ Remove(ty, n, FALSE)

SpecN == Init /\ [][NextN]_vars

\* the entities of the graph, every entity after the entities it links to,
\* the link fields taken in the order of declaration
RECURSIVE ChildrenFirst(_)
RECURSIVE ChildrenFirstFrom(_, _)
ChildrenFirst(instance) == ChildrenFirstFrom(instance, 1) \o <<instance>>
ChildrenFirstFrom(instance, i) ==
    IF i > Len(Fields(instance.type)) THEN <<>>
    ELSE LET f == Fields(instance.type)[i]
         IN (IF f.kind = "scalar" THEN <<>> ELSE ChildrenFirst(instance[f.fname]))
            \o ChildrenFirstFrom(instance, i + 1)

\* how the i-th write of the call is logged under the policy: the file at
\* its path existed before the call, or an earlier write of the call stored it
LoggedAs(fs, tr, i, policy) ==
    LET existed == \/ exists(fs, tr[i].path)
                   \/ \E j \in 1..(i - 1) : tr[j].path = tr[i].path /\ ~tr[j].kept
    IN CASE policy = "Overwrite" -> IF existed THEN "overwritten" ELSE "created"
         [] policy = "KeepExisting" -> IF tr[i].kept THEN "kept" ELSE "created"
         [] policy = "AdjustName" -> "created"

\* the paths of the writes i.. of the call that are logged as kind
RECURSIVE PathsLogged(_, _, _, _, _)
PathsLogged(fs, tr, i, policy, kind) ==
    IF i > Len(tr) THEN <<>>
    ELSE (IF LoggedAs(fs, tr, i, policy) = kind THEN <<tr[i].path>> ELSE <<>>)
         \o PathsLogged(fs, tr, i + 1, policy, kind)

\* C30: a successful Link-mode write comes to the files of the entities of
\* the graph children first, every linked entity before the entity that
\* links to it and the root last; every file written is in the store when
\* the call returns; and each of the lists of created, overwritten and kept
\* paths holds its paths in the order of these writes, so that the root's
\* path, which the call returns, is the last path of its list.
C30_ChildrenFirst ==
    [][(ret'.op = "write_verbose" /\ ret'.ok
          /\ ret'.write_options.write_mode = "Link") =>
         LET tr == ret'.trace
             order == ChildrenFirst(ret'.instance)
             policy == ret'.write_options.name_collisions
             root == LoggedAs(files, tr, Len(tr), policy)
             list == [created |-> ret'.info.created_files,
                      overwritten |-> ret'.info.overwritten_files,
                      kept |-> ret'.info.kept_files]
         IN /\ Len(tr) = Len(order)
            /\ \A i \in DOMAIN tr :
                  /\ tr[i].done
                  /\ tr[i].path.dir = order[i].type
                  /\ HoldsInstance(tr[i].data, order[i])
                  /\ exists(files', tr[i].path)
                  /\ (~tr[i].kept /\ \A j \in (i + 1)..Len(tr) : tr[j].path # tr[i].path)
                       => files'[tr[i].path] = tr[i].data
            /\ tr[Len(tr)].path = ret'.path
            /\ \A kind \in {"created", "overwritten", "kept"} :
                  list[kind] = PathsLogged(files, tr, 1, policy, kind)
            /\ list[root][Len(list[root])] = ret'.path]_vars

\* a User was written under KeepExisting on a store that held its Shovel's
\* file and no other: the two Materials came first, the first created and
\* the second kept, then the Shovel, kept, then the User, created
C30_Witness ==
    /\ ret.op = "write_verbose"
    /\ ret.ok
    /\ ret.instance.type = "User"
    /\ ret.write_options.name_collisions = "KeepExisting"
    /\ Len(ret.trace) = 4
    /\ ret.info.created_files = <<ret.trace[1].path, ret.trace[4].path>>
    /\ ret.info.kept_files = <<ret.trace[2].path, ret.trace[3].path>>
    /\ ret.trace[3].path = full_path_unchecked("Shovel", nameS)
    /\ ret.trace[4].path = ret.path

----------------------------------------------------------------------------
(* Optional link fields: Shelf (Option<Arc<Shovel>>) and Cupboard          *)
(* (Option<Cup>) of tests/utilities.rs, written and read back.             *)

CupA == Cup(nameA, Material(1, nameA))
OEntities ==
    {Shelf(nameT, s) : s \in {None, ShovelA}}
      \cup {Cupboard(nameT, c) : c \in {None, CupA}}
OOptions ==
    [name_collisions : {"Overwrite"}, write_mode : {"Link", "Flat"}, alias : {EmptyMap}]
OKeys == {<<"Shovel", nameA>>, <<"Cup", nameA>>, <<"Material", nameA>>}

NextO ==
    \/ \E instance \in OEntities, write_options \in OOptions :
          WriteVerbose(instance, write_options, NoFail)
    \/ \E T \in {"Shelf", "Cupboard"} :
          /\ ReadVerbose(T, nameT)
          /\ Len(heap') <= MaxArcs
    \/ \E key \in OKeys :
          /\ exists(files, full_path_unchecked(key[1], key[2]))
          /\ Remove(key[1], key[2], FALSE)

SpecO == Init /\ [][NextO]_vars

\* the optional link field of a type
OptField(T) == IF T = "Shelf" THEN "shovel" ELSE "cup"

\* the step is a successful write_verbose of a Shelf or a Cupboard
IsOptWrite ==
    /\ ret'.op = "write_verbose" /\ ret'.ok
    /\ ret'.instance.type \in {"Shelf", "Cupboard"}

\* the step is a read_verbose of the Shelf or the Cupboard in the store
IsOptRead ==
    /\ ret'.op = "read_verbose"
    /\ ret'.ty \in {"Shelf", "Cupboard"}
    /\ exists(files, full_path_unchecked(ret'.ty, ret'.name))
    /\ files[full_path_unchecked(ret'.ty, ret'.name)].tag = ret'.ty

\* the write of an entity with the same name whose field is the plain link
PlainWrite(instance) ==
    WriteContext_write(WriteContext_new(ret'.write_options, TRUE),
                       User(instance.name, instance.shovel),
                       [files |-> files, rw |-> RW_INFO, fail |-> NoFail,
                        trace |-> <<>>])

\* the read state a read_verbose starts with
ReadStart ==
    [cache |-> cache, heap |-> heap, rw |-> set_log(RW_INFO, TRUE),
     res |-> <<>>, missing |-> <<>>]

\* C25: writing an entity whose optional link field is None stores the file
\* of the entity only and encodes the field as null, and reading such a file
\* succeeds with the field None and touches neither a file, the cache nor
\* the heap.  When the field is Some, the write stores what the write of the
\* plain link field stores (the linked files first, then a link of the
\* value's name and checksum in Link mode, the value inline in Flat mode),
\* and the read resolves the field as the plain link function does.
C25_OptionalLinks ==
    [][/\ IsOptWrite =>
            LET instance == ret'.instance
                f == OptField(instance.type)
                tr == ret'.trace
                own == tr[Len(tr)].data
            IN IF instance[f] = None
               THEN /\ Len(tr) = 1
                    /\ own.body[f] = Null
                    /\ DOMAIN files' = DOMAIN files \cup {ret'.path}
                    /\ \A p \in DOMAIN files \ {ret'.path} : files'[p] = files[p]
               ELSE /\ IF ret'.write_options.write_mode = "Link"
                       THEN LET p == full_path_unchecked(instance[f].type,
                                                         instance[f].name)
                            IN /\ \E i \in 1..(Len(tr) - 1) : tr[i].path = p
                               /\ exists(files', p)
                               /\ HoldsInstance(files'[p], instance[f])
                               /\ own.body[f] = DatabaseLink_new(instance[f],
                                                                 checksum(files', p))
                       ELSE /\ Len(tr) = 1
                            /\ own.body[f] = InlineDoc(instance[f])
                    /\ instance.type = "Shelf" =>
                          LET u == PlainWrite(instance)
                          IN /\ u.ok
                             /\ SubSeq(u.st.trace, 1, Len(u.st.trace) - 1)
                                  = SubSeq(tr, 1, Len(tr) - 1)
                             /\ u.st.trace[Len(u.st.trace)].data.body.shovel
                                  = own.body.shovel
       /\ IsOptRead =>
            LET T == ret'.ty
                f == OptField(T)
                body == files[full_path_unchecked(T, ret'.name)].body
            IN IF body[f] = Null
               THEN /\ ret'.ok
                    /\ ret'.val[f] = None
                    /\ ret'.res = <<>> /\ ret'.missing = <<>>
                    /\ cache' = cache /\ heap' = heap
               ELSE LET base == IF T = "Shelf"
                                THEN deserialize_arc_link(ReadContext_new(TRUE), "Shovel",
                                                          body[f], files, ReadStart)
                                ELSE deserialize_link(ReadContext_new(TRUE), "Cup",
                                                      body[f], files, ReadStart)
                    IN /\ ret'.ok = base.ok
                       /\ ret'.ok => ret'.val[f] = base.val /\ ret'.val[f] # None
                       /\ ret'.res = base.st.res
                       /\ ret'.missing = base.st.missing
                       /\ cache' = base.st.cache /\ heap' = base.st.heap]_vars

\* a Shelf without a shovel was written and read back as None, and a Shelf
\* with a shovel was written as a link and read back through it
C25_Witness ==
    /\ ret.op = "read_verbose" /\ ret.ok /\ ret.ty = "Shelf"
    /\ ret.val.shovel # None
    /\ Len(ret.res) > 0
    /\ exists(files, full_path_unchecked("Cupboard", nameT))
    /\ files[full_path_unchecked("Cupboard", nameT)].body.cup = Null

----------------------------------------------------------------------------
(* The context of a top-level call: writes and reads of a User, whose      *)
(* Shovel links two Materials, with and without logging, with and without *)
(* an alias, overwriting or keeping the files there are.                   *)

UserU == User(nameU, Shovel(nameS, Material(1, nameA), Material(2, nameA)))

KOptions == {o \in WOptions : o.name_collisions # "AdjustName"}

NextK ==
    \/ \E write_options \in KOptions :
          /\ WriteVerbose(UserU, write_options, NoFail)
          /\ Cardinality(DOMAIN files') <= MaxFiles
    \/ \E write_options \in KOptions :
          /\ Write(UserU, write_options, NoFail)
          /\ Cardinality(DOMAIN files') <= MaxFiles
    \/ /\ ReadVerbose("User", nameU)
       /\ Len(heap') <= MaxArcs
    \/ /\ Read("User", nameU)
       /\ Len(heap') <= MaxArcs
    \/ \E ty \in {"Material", "Shovel"}, n \in {nameA, nameB, nameS} :
          /\ exists(files, full_path_unchecked(ty, n))
          /\ Remove(ty, n, FALSE)

SpecK == Init /\ [][NextK]_vars

\* the file name starts with the name
NamedBy(file, name) == Len(file) >= Len(name) /\ SubSeq(file, 1, Len(name)) = name

\* the i-th file write of a call wrote the entity under the options: in the
\* folder of its type, under its name or alias, every link field as a link
\* to the entity of the field, kept only under KeepExisting and suffixed
\* only under AdjustName
WrittenUnder(write_options, e, w) ==
    /\ w.path.dir = e.type
    /\ NamedBy(w.path.file, WriteOptions_name(write_options, e))
    /\ HoldsInstance(w.data, e)
    /\ \A k \in DOMAIN Fields(e.type) :
          LET f == Fields(e.type)[k]
          IN f.kind # "scalar" =>
                /\ IsLinkDoc(w.data.body[f.fname])
                /\ w.data.body[f.fname].name = e[f.fname].name
    /\ w.kept => write_options.name_collisions = "KeepExisting"
    /\ write_options.name_collisions # "AdjustName" =>
          w.path.file = WithExt(WriteOptions_name(write_options, e))

\* the paths the write information lists
ListedPaths(info) ==
    {info.created_files[i] : i \in DOMAIN info.created_files}
      \cup {info.overwritten_files[i] : i \in DOMAIN info.overwritten_files}
      \cup {info.kept_files[i] : i \in DOMAIN info.kept_files}

\* every link below the document leads to a file of the type of its field
RECURSIVE Resolvable(_, _, _)
Resolvable(fs, T, d) ==
    IF IsLinkDoc(d)
    THEN /\ exists(fs, full_path_unchecked(T, d.name))
         /\ fs[full_path_unchecked(T, d.name)].tag = T
         /\ Resolvable(fs, T, fs[full_path_unchecked(T, d.name)].body)
    ELSE /\ DOMAIN d = FieldNames(T)
         /\ \A k \in DOMAIN Fields(T) :
               LET f == Fields(T)[k]
               IN f.kind # "scalar" => Resolvable(fs, f.ty, d[f.fname])

\* C24: one context serves a whole top-level call.  A successful Link-mode
\* write wrote every entity of the graph, at every depth and for every link
\* field of an entity, through the options and the logging flag of the
\* call: one file write per entity, each under the call's alias and
\* collision policy, each link field as a link; with logging every path is
\* listed, without it none is; and no write context is left when the call
\* returns.  A read whose links all lead to files resolves every link of
\* every depth, and no read context is left when it returns.
C24_OneContextPerCall ==
    [][/\ (ret'.op \in {"write", "write_verbose"} /\ ret'.ok) =>
            LET tr == ret'.trace
                order == ChildrenFirst(ret'.instance)
            IN /\ WRITE_CONTEXT' = None
               /\ Len(tr) = Len(order)
               /\ \A i \in DOMAIN tr : WrittenUnder(ret'.write_options, order[i], tr[i])
               /\ ret'.op = "write_verbose" =>
                     ListedPaths(ret'.info) = {tr[i].path : i \in DOMAIN tr}
               /\ ret'.op = "write" => ret'.info = None
               /\ RW_INFO'.log = (ret'.op = "write_verbose")
               /\ RW_INFO' = [RwInfoDefault EXCEPT !.log = RW_INFO'.log]
       /\ ret'.op \in {"read", "read_verbose"} =>
            /\ READ_CONTEXT' = None
            /\ Resolvable(files, ret'.ty, [name |-> ret'.name]) =>
                  /\ ret'.ok
                  /\ Len(ret'.res) >= 1
                  /\ heap'[ret'.val.shovel.arc].type = "Shovel"
                  /\ heap'[heap'[ret'.val.shovel.arc].shaft.arc].type = "Material"
                  /\ heap'[ret'.val.shovel.arc].blade.type = "Material"]_vars

\* after a read that resolved the links of two depths, a User was written
\* without logging under an alias and KeepExisting: four file writes, the
\* nested ones through the same options, one of them kept
C24_Witness ==
    /\ ret.op = "write" /\ ret.ok
    /\ ret.write_options.alias # EmptyMap
    /\ ret.write_options.name_collisions = "KeepExisting"
    /\ Len(ret.trace) = 4
    /\ \E i \in 1..3 : ret.trace[i].kept
    /\ Len(heap) >= 2
    /\ WRITE_CONTEXT = None

----------------------------------------------------------------------------
(* Two threads, each with a manager of its own on the same directory.  A   *)
(* top-level write or read is entered (the context is built and stored in  *)
(* the thread-local) and left (context.write / context.read runs and the   *)
(* thread-local is cleared); the scheduler may switch threads in between,  *)
(* and a thread that is in no call may run serde directly or call          *)
(* from_str.                                                               *)

\* a static shared by all threads
thread_local_static(own, current) == current

\* thread_local!: the value a thread finds in the static is the one it left
\* there itself
thread_local(own, current) == own

\* the thread-locals and the manager's cache of a thread
LocalsOf(t) ==
    IF t = threads.running
    THEN [WRITE_CONTEXT |-> WRITE_CONTEXT, READ_CONTEXT |-> READ_CONTEXT,
          RW_INFO |-> RW_INFO, cache |-> cache]
    ELSE threads.parked[t]

\* the scheduler lets thread t run
Switch(t) ==
    /\ t # threads.running
    /\ WRITE_CONTEXT' = thread_local(threads.parked[t].WRITE_CONTEXT, WRITE_CONTEXT)
    /\ READ_CONTEXT' = thread_local(threads.parked[t].READ_CONTEXT, READ_CONTEXT)
    /\ RW_INFO' = thread_local(threads.parked[t].RW_INFO, RW_INFO)
    /\ cache' = threads.parked[t].cache
    /\ threads' = [running |-> t,
                   parked |-> [u \in Threads \ {t} |-> LocalsOf(u)],
                   open |-> threads.open]
    /\ UNCHANGED <<files, heap, ret>>

\* the running thread is in no call of its manager
ThreadIdle == threads.open[threads.running] = None

\* write_verbose_log up to thread_context.set(Some(context.clone()))
WriteEnter(instance, write_options, log) ==
    /\ ThreadIdle
    /\ WRITE_CONTEXT' = WriteContext_new(write_options, log)
    /\ threads' = [threads EXCEPT !.open[threads.running] =
                      [op |-> "write", instance |-> instance,
                       write_options |-> write_options, log |-> log]]
    /\ UNCHANGED <<files, cache, heap, READ_CONTEXT, RW_INFO, ret>>

\* write_verbose_log from context.write(instance) to its return
WriteLeave ==
    /\ ~ThreadIdle
    /\ threads.open[threads.running].op = "write"
    /\ LET call == threads.open[threads.running]
       IN write_verbose_log_rest(call.instance, call.write_options, call.log,
                                 IF call.log THEN "write_verbose" ELSE "write")
    /\ threads' = [threads EXCEPT !.open[threads.running] = None]

\* read_verbose_log up to thread_context.set(Some(context.clone()))
ReadEnter(T, name) ==
    /\ ThreadIdle
    /\ READ_CONTEXT' = ReadContext_new(TRUE)
    /\ threads' = [threads EXCEPT !.open[threads.running] =
                      [op |-> "read", ty |-> T, name |-> name]]
    /\ UNCHANGED <<files, cache, heap, WRITE_CONTEXT, RW_INFO, ret>>

\* read_verbose_log from context.read(name) to its return
ReadLeave ==
    /\ ~ThreadIdle
    /\ threads.open[threads.running].op = "read"
    /\ LET call == threads.open[threads.running]
       IN read_verbose_log_rest(call.ty, call.name, TRUE, "read_verbose")
    /\ threads' = [threads EXCEPT !.open[threads.running] = None]

TShovel == Shovel(nameS, Material(1, nameA), Material(1, nameA))
TLink == LinkDoc(nameA, adler32(FileBytes(MaterialDoc(Material(1, nameA)))))
TBodies ==
    {ShovelBody(MaterialDoc(Material(1, nameA)).body, TLink),
     ShovelBody(MaterialDoc(Material(1, nameA)).body,
                MaterialDoc(Material(2, nameA)).body)}
TStrs ==
    {[tag |-> "Shovel",
      body |-> ShovelBody(MaterialDoc(Material(1, nameA)).body, TLink)],
     Garbage}

NextT ==
    \/ \E t \in Threads : Switch(t)
    \/ \E log \in BOOLEAN : WriteEnter(TShovel, OverwriteLink, log)
    \/ WriteLeave
    \/ ReadEnter("Shovel", nameS)
    \/ /\ ReadLeave
       /\ Len(heap') < MaxArcs
    \/ /\ ThreadIdle
       /\ PlainSerialize(TShovel)
    \/ \E body \in TBodies :
          /\ ThreadIdle
          /\ PlainDeserialize("Shovel", body)
          /\ Len(heap') < MaxArcs
          /\ Len(RW_INFO'.checksum_mismatch) <= MaxLog
    \/ \E str \in TStrs :
          /\ ThreadIdle
          /\ FromStr("Shovel", str)
          /\ Len(heap') < MaxArcs
          /\ Len(RW_INFO'.checksum_mismatch) <= MaxLog

SpecT == Init /\ [][NextT]_vars

\* the write and the read context of a thread
ContextsOf(t) == <<LocalsOf(t).WRITE_CONTEXT, LocalsOf(t).READ_CONTEXT>>

\* no step changes the contexts of a thread other than the one that takes
\* it, and a switch of threads changes the contexts of no thread
ContextsStayWithThread ==
    \A t \in Threads :
        (t # threads.running \/ threads'.running # threads.running)
           => ContextsOf(t)' = ContextsOf(t)

\* the step is a call of serde itself by the running thread
IsPlainStep ==
    /\ threads' = threads
    /\ ret'.op \in {"to_string", "serde_from_str"}

\* the call of serde encoded or decoded in place: nothing written, nothing
\* resolved, a Link in the text refused for the lack of a context
PlainIsInline ==
    IF ret'.op = "to_string"
    THEN /\ files' = files
         /\ ret'.trace = <<>>
         /\ ret'.val = InlineDoc(ret'.instance)
    ELSE /\ cache' = cache
         /\ ret'.res = <<>>
         /\ ret'.missing = <<>>
         /\ IF \E f \in {"shaft", "blade"} : IsLinkDoc(ret'.instance[f])
            THEN ~ret'.ok /\ ret'.err = "Other"
            ELSE ret'.ok

----------------------------------------------------------------------------
(* Links in sync after a write, under SpecN.                               *)

\* the step is a successful Link-mode write_verbose with the Overwrite
\* policy and no alias
IsPlainOverwrite ==
    /\ ret'.op = "write_verbose" /\ ret'.ok
    /\ ret'.write_options.write_mode = "Link"
    /\ ret'.write_options.name_collisions = "Overwrite"
    /\ ret'.write_options.alias = EmptyMap

\* every Link in the file at the path carries the checksum of the bytes of
\* the file its name resolves to
LinksInSync(fs, path) ==
    \A k \in DOMAIN Fields(fs[path].tag) :
        LET f == Fields(fs[path].tag)[k]
            d == fs[path].body[f.fname]
        IN f.kind # "scalar" =>
              /\ IsLinkDoc(d)
              /\ exists(fs, full_path_unchecked(f.ty, d.name))
              /\ LinkChecksum(d) = checksum(fs, full_path_unchecked(f.ty, d.name))

\* C31 as stated: after a successful Link-mode write with Overwrite and no
\* alias, every Link in every file the call wrote carries the checksum of
\* the current bytes of its target.
C31_LinksInSync ==
    [][IsPlainOverwrite =>
         \A i \in DOMAIN ret'.trace : LinksInSync(files', ret'.trace[i].path)]_vars

\* C31 (amended): the same, for a graph that gives one value to each
\* (type, name).  When two entities of the graph share type and name and
\* differ, the later one overwrites the file of the earlier one and the Link
\* written for the earlier one keeps the checksum of the bytes replaced.
C31_LinksInSyncOneValue ==
    [][(IsPlainOverwrite /\ OneValuePerName(ret'.instance)) =>
         \A i \in DOMAIN ret'.trace : LinksInSync(files', ret'.trace[i].path)]_vars

\* a User whose Shovel links one Material twice was written over the files
\* of an earlier write: the Links of both files carry the checksums of the
\* new files
C31_Witness ==
    /\ ret.op = "write_verbose" /\ ret.ok
    /\ ret.write_options.name_collisions = "Overwrite"
    /\ ret.instance.type = "User"
    /\ OneValuePerName(ret.instance)
    /\ Len(ret.trace) = 4
    /\ ret.info.overwritten_files # <<>>
    /\ \A i \in DOMAIN ret.trace : LinksInSync(files, ret.trace[i].path)

----------------------------------------------------------------------------
(* Reads of a Stool that fail: the file of a leg is removed or made        *)
(* undecodable between the reads, and the links are edited.                *)

QLinksB ==
    {LinkDoc(nameB, c) : c \in {adler32(FileBytes(MaterialDoc(Material(1, nameB)))),
                                adler32(FileBytes(MaterialDoc(Material(1, nameA))))}}
QLinksA == {LinkDoc(nameA, adler32(FileBytes(MaterialDoc(m)))) : m \in Materials}

NextQ ==
    \/ /\ ReadVerbose("Stool", nameT)
       /\ Len(heap') <= MaxArcs
    \/ \E data \in RContents :
          ExternalEdit(full_path_unchecked("Material", nameA), data)
    \/ \E l1 \in QLinksA, l2 \in QLinksB :
          ExternalEdit(full_path_unchecked("Stool", nameT), StoolDoc(l1, l2))
    \/ /\ exists(files, full_path_unchecked("Material", nameB))
       /\ Remove("Material", nameB, FALSE)

SpecQ == InitR /\ [][NextQ]_vars

\* the step is a read_verbose that failed
IsFailedRead == IsReadStep /\ ret'.op = "read_verbose" /\ ~ret'.ok

\* C32 as stated: a read that fails leaves the cache as it was.
C32_FailedReadKeepsCache ==
    [][IsFailedRead => cache' = cache]_vars

\* C32 (amended): a read that fails adds no entry for the target whose read
\* failed.  The entry of a target differs after the call only when a link
\* of the call to that target carried a checksum other than the entry's, so
\* that the entry was evicted and the fresh read failed, or when a link to
\* that target was resolved from its file before the failure, so that the
\* new handle was stored with the link's checksum.
C32_FailedReadCacheChanges ==
    [][IsFailedRead =>
         \A n \in {nameA, nameB} :
            LET old == CacheGet(cache, "Material", n)
                new == CacheGet(cache', "Material", n)
                mine == {i \in DOMAIN ret'.res :
                            ret'.res[i].ty = "Material" /\ ret'.res[i].name = n}
            IN new # old =>
                 \/ /\ new = None
                    /\ \E i \in mine :
                          /\ ret'.res[i].arc = NoArc
                          /\ ret'.res[i].entry # None
                          /\ ~use_arc_instance(ret'.res[i].entry.checksum,
                                               ret'.res[i].checksum)
                 \/ /\ new # None
                    /\ new.arc > Len(heap)
                    /\ \E i \in mine :
                          /\ ret'.res[i].arc = new.arc
                          /\ ret'.res[i].checksum = new.checksum]_vars

\* a read failed at its second leg: the entry of the first leg's target was
\* replaced by a fresh handle, the entry of the second leg's target was
\* evicted and its file was not found
C32_Witness ==
    /\ ret.op = "read_verbose" /\ ~ret.ok
    /\ Len(ret.res) = 2
    /\ ret.res[1].entry # None /\ ret.res[1].arc # NoArc
    /\ CacheGet(cache, "Material", ret.res[1].name).arc = ret.res[1].arc
    /\ ret.res[1].entry.arc # ret.res[1].arc
    /\ ret.res[2].entry # None /\ ret.res[2].arc = NoArc
    /\ CacheGet(cache, "Material", ret.res[2].name) = None

----------------------------------------------------------------------------
(* One thread.  Between the entry of a top-level call and the run of its   *)
(* body (an entity's own encode or decode calling out before its link      *)
(* fields are reached) the thread makes a whole top-level call on another  *)
(* manager opened on the same directory.                                   *)

HShovels ==
    {Shovel(nameS, Material(i, nameA), Material(j, nameA)) : i, j \in 1..2}

\* a write on another manager from inside an open call
InnerWrite(instance) ==
    /\ ~ThreadIdle
    /\ Write(instance, OverwriteLink, NoFail)

\* a read on another manager from inside an open call
InnerRead(T, name) ==
    /\ ~ThreadIdle
    /\ Read(T, name)

NextH ==
    \/ \E instance \in HShovels : WriteEnter(instance, OverwriteLink, TRUE)
    \/ WriteLeave
    \/ ReadEnter("Shovel", nameS)
    \/ /\ ReadLeave
       /\ Len(heap') <= MaxArcs
    \/ InnerWrite(Material(1, nameB))
    \/ InnerRead("Material", nameA)

SpecH == Init /\ [][NextH]_vars

\* the step is a whole top-level call made while a call is open
IsInnerStep ==
    /\ ~ThreadIdle
    /\ threads' = threads

\* the step runs the body of the open call and closes it
IsLeaveStep(op) ==
    /\ ~ThreadIdle
    /\ threads.open[threads.running].op = op
    /\ threads'.open[threads.running] = None

\* the root of the write went to its file with every link field a Link and
\* one file written for each entity of the graph
WrittenAsLinks ==
    /\ ret'.ok
    /\ Len(ret'.trace) = GraphSize(ret'.instance)
    /\ \A f \in {"shaft", "blade"} : IsLinkDoc(files'[ret'.path].body[f])

\* the root of the write went to its file with every link field in place,
\* and no other file was written
WrittenInPlace ==
    /\ ret'.ok
    /\ Len(ret'.trace) = 1
    /\ files'[ret'.path].body = InlineDoc(ret'.instance)

\* the root file of the read that is open holds a Link
RootHoldsLink ==
    LET call == threads.open[threads.running]
        file_path == full_path_unchecked(call.ty, call.name)
    IN /\ exists(files, file_path)
       /\ files[file_path].tag = call.ty
       /\ \E f \in {"shaft", "blade"} : IsLinkDoc(files[file_path].body[f])

\* C33 as stated: a top-level call made on another manager while a call is
\* open leaves the context of the open call in the thread-local, and the
\* open call then writes its link fields as links and resolves the Links it
\* reads.
C33_OuterContextSurvives ==
    [][/\ IsInnerStep =>
            /\ threads.open[threads.running].op = "write"
                  => WRITE_CONTEXT' = WRITE_CONTEXT
            /\ threads.open[threads.running].op = "read"
                  => READ_CONTEXT' = READ_CONTEXT
       /\ IsLeaveStep("write") => WrittenAsLinks
       /\ (IsLeaveStep("read") /\ RootHoldsLink) => ret'.res # <<>>]_vars

\* C33 (amended): a top-level write made while a call is open empties the
\* write context of the thread and leaves its read context alone, and a
\* top-level read does the reverse; neither puts the context of the open
\* call back.  An open write whose context was emptied encodes its link
\* fields in place and writes the root file only; an open read whose
\* context was emptied refuses a root file that holds a Link with
\* InvalidData and resolves nothing.  An open call whose context is still
\* set writes links and resolves Links.
C33_InnerCallClearsContext ==
    [][/\ (IsInnerStep /\ ret'.op = "write") =>
            /\ WRITE_CONTEXT' = None
            /\ READ_CONTEXT' = READ_CONTEXT
       /\ (IsInnerStep /\ ret'.op = "read") =>
            /\ READ_CONTEXT' = None
            /\ WRITE_CONTEXT' = WRITE_CONTEXT
       /\ IsLeaveStep("write") =>
            IF WRITE_CONTEXT = None THEN WrittenInPlace ELSE WrittenAsLinks
       /\ (IsLeaveStep("read") /\ RootHoldsLink) =>
            IF READ_CONTEXT = None
            THEN /\ ~ret'.ok
                 /\ ret'.err = "InvalidData"
                 /\ ret'.res = <<>>
                 /\ cache' = cache
            ELSE ret'.res # <<>>]_vars

\* a Link-mode write of a Shovel has returned with its shaft and blade in
\* place in the root file and one file written, after a write on another
\* manager made from inside it created Material/b
C33_Witness ==
    /\ ThreadIdle
    /\ ret.op = "write_verbose" /\ ret.ok
    /\ ret.write_options.write_mode = "Link"
    /\ Len(ret.trace) = 1
    /\ files[ret.path].body = InlineDoc(ret.instance)
    /\ exists(files, full_path_unchecked("Material", nameB))
    /\ ~exists(files, full_path_unchecked("Material", nameA))
----------------------------------------------------------------------------
(* Two threads, each with a manager of its own on the same directory,      *)
(* write with AdjustName.  The body of a write is taken in its two file    *)
(* system steps: the encoding with the existence tests that choose the     *)
(* path, and File::create with write_all on the chosen path; the           *)
(* scheduler may switch threads between the two.                           *)

AdjustLink == [WriteOptionsDefault EXCEPT !.name_collisions = "AdjustName"]

AMaterials == {Material(1, nameA), Material(2, nameA)}

\* WriteContext::write up to the end of the match on name_collisions
WriteProbe ==
    /\ ~ThreadIdle
    /\ threads.open[threads.running].op = "write"
    /\ LET call == threads.open[threads.running]
       IN \E ser \in {SerializeFields(WRITE_CONTEXT, call.instance,
                                      [files |-> files,
                                       rw |-> set_log(RW_INFO, call.log),
                                       fail |-> NoFail, trace |-> <<>>],
                                      1, EmptyMap)} :
          /\ ser.ok
          /\ \E c \in {ResolveCollision(call.write_options, call.instance,
                                        ser.st)} :
                /\ files' = ser.st.files
                /\ RW_INFO' = c.rw
                /\ threads' = [threads EXCEPT !.open[threads.running] =
                                  [op |-> "create", instance |-> call.instance,
                                   write_options |-> call.write_options,
                                   log |-> call.log, c |-> c, doc |-> ser.doc,
                                   trace |-> ser.st.trace]]
    /\ UNCHANGED <<cache, heap, WRITE_CONTEXT, READ_CONTEXT, ret>>

\* WriteContext::write from File::create on, and write_verbose_log to its
\* return
WriteCreate ==
    /\ ~ThreadIdle
    /\ threads.open[threads.running].op = "create"
    /\ LET call == threads.open[threads.running]
       IN \E w \in {CreateFile([files |-> files, rw |-> RW_INFO,
                                fail |-> NoFail, trace |-> call.trace],
                               [call.c EXCEPT !.rw = RW_INFO],
                               [tag |-> call.instance.type, body |-> call.doc])} :
          \E t \in {take_write_info(w.st.rw)} :
             /\ files' = w.st.files
             /\ RW_INFO' = t.rw
             /\ WRITE_CONTEXT' = None
             /\ ret' = [op |-> "write_verbose", ty |-> type_name(call.instance),
                        ok |-> w.ok, err |-> w.err, path |-> w.path,
                        info |-> IF w.ok /\ call.log THEN t.info ELSE None,
                        instance |-> call.instance,
                        write_options |-> call.write_options,
                        name |-> NoName, val |-> None, res |-> <<>>,
                        fail |-> NoFail, trace |-> w.st.trace, missing |-> <<>>]
    /\ threads' = [threads EXCEPT !.open[threads.running] = None]
    /\ UNCHANGED <<cache, heap, READ_CONTEXT>>

NextA ==
    \/ \E t \in Threads : Switch(t)
    \/ \E instance \in AMaterials :
          /\ Cardinality(DOMAIN files)
                + Cardinality({t \in Threads : threads.open[t] # None}) < MaxFiles
          /\ WriteEnter(instance, AdjustLink, TRUE)
    \/ WriteProbe
    \/ WriteCreate

SpecA == Init /\ [][NextA]_vars

\* the step creates the file of an AdjustName write
IsCreateStep ==
    /\ ~ThreadIdle
    /\ threads.open[threads.running].op = "create"
    /\ threads'.open[threads.running] = None

\* C34: with a manager per thread on one directory, an AdjustName write
\* never creates its file on a path that is taken, whatever the order of the
\* two threads' existence tests and file creations: every write adds one
\* file and leaves the bytes of every file that was there, so that two
\* writes of the same type and name end in two files.
C34_ConcurrentAdjustNameDistinct ==
    [][IsCreateStep =>
          /\ ~exists(files, ret'.path)
          /\ DOMAIN files' = DOMAIN files \cup {ret'.path}
          /\ \A p \in DOMAIN files : files'[p] = files[p]]_vars
----------------------------------------------------------------------------
(* KeepExisting writes of a graph whose root file is in the store.         *)

\* the step is a Link-mode KeepExisting write whose root file existed
IsKeptRootWrite ==
    /\ ret'.op = "write_verbose"
    /\ ret'.write_options.write_mode = "Link"
    /\ ret'.write_options.name_collisions = "KeepExisting"
    /\ exists(files, CanonicalPath(ret'))

\* C35: a Link-mode KeepExisting write whose root file exists succeeds and
\* still comes to every entity below the root, children first: the file of
\* a sub-entity that is missing is created (and logged as created), the
\* file of one that exists is kept with its bytes (and logged as kept), and
\* the root file keeps its bytes and is logged as kept, never as created;
\* no file of the store is changed or removed.
C35_KeptRootStillWritesChildren ==
    [][IsKeptRootWrite =>
         LET tr == ret'.trace
             order == ChildrenFirst(ret'.instance)
         IN /\ ret'.ok
            /\ ret'.path = CanonicalPath(ret')
            /\ Len(tr) = GraphSize(ret'.instance)
            /\ \A i \in DOMAIN tr :
                  LET before == \/ exists(files, tr[i].path)
                                \/ \E j \in 1..(i - 1) : tr[j].path = tr[i].path
                  IN /\ tr[i].path.dir = order[i].type
                     /\ tr[i].kept = before
                     /\ exists(files', tr[i].path)
                     /\ before => InSeq(tr[i].path, ret'.info.kept_files)
                     /\ ~before =>
                           /\ InSeq(tr[i].path, ret'.info.created_files)
                           /\ files'[tr[i].path] = tr[i].data
                           /\ HoldsInstance(tr[i].data, order[i])
            /\ tr[Len(tr)].path = ret'.path
            /\ tr[Len(tr)].kept
            /\ files'[ret'.path] = files[ret'.path]
            /\ InSeq(ret'.path, ret'.info.kept_files)
            /\ ~InSeq(ret'.path, ret'.info.created_files)
            /\ ret'.info.overwritten_files = <<>>
            /\ \A q \in DOMAIN files : exists(files', q) /\ files'[q] = files[q]
            /\ DOMAIN files' = DOMAIN files \cup {tr[i].path : i \in DOMAIN tr}]_vars

\* a KeepExisting write of a User met its own file and the Shovel's file
\* in the store and kept both, and created the missing file of the
\* Material the Shovel links to
C35_Witness ==
    /\ ret.op = "write_verbose"
    /\ ret.ok
    /\ ret.instance.type = "User"
    /\ ret.write_options.name_collisions = "KeepExisting"
    /\ Len(ret.trace) = 4
    /\ ~ret.trace[1].kept
    /\ ret.trace[1].path.dir = "Material"
    /\ ret.trace[3].kept
    /\ ret.trace[4].kept
    /\ ret.trace[4].path = ret.path
    /\ ret.info.created_files = <<ret.trace[1].path>>
    /\ files[ret.path].body.shovel.name = nameS
----------------------------------------------------------------------------
(* Arc links served from the cache, the target file changed or removed.    *)

\* the link of the call found an entry it could reuse
IsCacheHit(r, hp) ==
    /\ r.entry # None
    /\ Reusable(r.entry.checksum, r.checksum)
    /\ Downcast(hp, r.entry.arc, r.ty) # NoArc

\* C36: an Arc link that finds a reusable entry returns the entry's handle
\* and does nothing else: no handle is made, no mismatch is logged for the
\* link and its target file is not looked for.  A read whose root file
\* decodes and whose links all find reusable entries succeeds, with the
\* cached values, whether the target files exist, hold other bytes or are
\* gone, and leaves the cache, the handles and the mismatch list as they
\* were.
C36_CacheHitSkipsFile ==
    [][(IsReadStep /\ ret'.op = "read_verbose") =>
         /\ \A i \in DOMAIN ret'.res :
               LET r == ret'.res[i]
               IN IsCacheHit(r, heap') =>
                     /\ r.arc = r.entry.arc
                     /\ r.logged = 0
         /\ (/\ Len(ret'.res) = 2
             /\ \A i \in DOMAIN ret'.res : IsCacheHit(ret'.res[i], heap')) =>
               /\ ret'.ok
               /\ ret'.info.checksum_mismatch = <<>>
               /\ ret'.missing = <<>>
               /\ heap' = heap
               /\ cache' = cache
               /\ ret'.val.leg_1.arc = ret'.res[1].entry.arc
               /\ ret'.val.leg_2.arc = ret'.res[2].entry.arc]_vars

\* a read of a Stool succeeded with both legs taken from the cache while the
\* file of the second leg's target was gone and the file of the first leg's
\* target held a value other than the cached one
C36_Witness ==
    /\ ret.op = "read_verbose"
    /\ ret.ok
    /\ Len(ret.res) = 2
    /\ IsCacheHit(ret.res[1], heap)
    /\ IsCacheHit(ret.res[2], heap)
    /\ ret.res[1].arc = ret.res[1].entry.arc
    /\ ret.res[2].arc = ret.res[2].entry.arc
    /\ ~exists(files, full_path_unchecked("Material", ret.res[2].name))
    /\ exists(files, full_path_unchecked("Material", ret.res[1].name))
    /\ Decoded(files[full_path_unchecked("Material", ret.res[1].name)])
          # heap[ret.res[1].arc]
    /\ ret.info.checksum_mismatch = <<>>
----------------------------------------------------------------------------
(* Writes, reads through plain links (Cup.material, Cupboard.cup,          *)
(* Shovel.blade) and through an Arc link (Shovel.shaft), and entries       *)
(* stored by the program, on one cache.                                    *)

PEntities ==
    {Shovel(nameS, Material(i, nameA), Material(1, nameA)) : i \in 1..2}
      \cup {Cup(nameA, Material(i, nameA)) : i \in 1..2}
      \cup {Cupboard(nameT, CupA)}

NextP ==
    \/ \E e \in PEntities :
          /\ WriteVerbose(e, OverwriteLink, NoFail)
          /\ Cardinality(DOMAIN files') <= MaxFiles
    \/ \E m \in {Material(1, nameA), Material(2, nameA)} :
          /\ Write(m, OverwriteLink, NoFail)
          /\ Cardinality(DOMAIN files') <= MaxFiles
    \/ \E key \in {<<"Shovel", nameS>>, <<"Cup", nameA>>, <<"Cupboard", nameT>>} :
          /\ ReadVerbose(key[1], key[2])
          /\ Len(heap') <= MaxArcs
    \/ /\ CacheInsert(Material(2, nameA))
       /\ Len(heap') <= MaxArcs
    \/ /\ exists(files, full_path_unchecked("Material", nameA))
       /\ Remove("Material", nameA, FALSE)

SpecP == Init /\ [][NextP]_vars

\* the value the plain link field f of the root file of the read resolves to
PlainTarget(f) ==
    LET root == files[full_path_unchecked(ret'.ty, ret'.name)]
    IN Decoded(files[full_path_unchecked("Material", root.body[f].name)])

\* C37: write and write_verbose leave the cache and its handles as they
\* were.  A read through plain link fields only (a Cup, a Cupboard with its
\* optional link to a Cup) leaves them as they were too, looks up no entry, and returns what the target file holds
\* whatever the cache holds under the target's name; the plain link of a
\* Shovel is resolved from its file in the same way, and the read of the
\* Shovel changes no entry but that of the target of its Arc link.  A step
\* that changes the cache is a read that resolved an Arc link or an insert
\* made by the program through cache_mut.
C37_CacheOnlyForArcLinks ==
    [][/\ ret'.op \in {"write", "write_verbose"} =>
            /\ cache' = cache
            /\ heap' = heap
       /\ (ret'.op \in ReadOps /\ ret'.ty \in {"Cup", "Cupboard"}) =>
            /\ cache' = cache
            /\ heap' = heap
            /\ ret'.res = <<>>
            /\ (ret'.ok /\ ret'.ty = "Cup")
                  => ret'.val.material = PlainTarget("material")
            /\ (ret'.ok /\ ret'.ty = "Cupboard")
                  => ret'.val.cup.material
                       = Decoded(files[full_path_unchecked("Material", nameA)])
       /\ (ret'.op \in ReadOps /\ ret'.ty = "Shovel") =>
            /\ Len(ret'.res) <= 1
            /\ ret'.ok => ret'.val.blade = PlainTarget("blade")
            /\ \A T \in {"Material", "Shovel", "Cup"}, n \in {nameA, nameS} :
                  CacheGet(cache', T, n) # CacheGet(cache, T, n)
                     => \E i \in DOMAIN ret'.res :
                           ret'.res[i].ty = T /\ ret'.res[i].name = n
       /\ cache' # cache =>
            \/ ret'.op \in {"cache_insert", "cache_mut"}
            \/ ret'.op \in ReadOps /\ ret'.res # <<>>]_vars

\* a read of a Cup returned the Material its file links to, as the file of
\* the Material holds it, while the cache held under the Material's name a
\* handle to another value
C37_Witness ==
    /\ ret.op = "read_verbose"
    /\ ret.ok
    /\ ret.ty = "Cup"
    /\ CacheGet(cache, "Material", ret.val.material.name) # None
    /\ heap[CacheGet(cache, "Material", ret.val.material.name).arc]
          # ret.val.material
    /\ ret.val.material
          = Decoded(files[full_path_unchecked("Material", ret.val.material.name)])
----------------------------------------------------------------------------
(* The same graph written twice in a row, checked under SpecN.             *)

\* the step is a Link-mode Overwrite write of the graph the call before it
\* wrote with the same options, and that call succeeded
IsRepeatedWrite ==
    /\ IsPlainOverwrite
    /\ ret.op = "write_verbose" /\ ret.ok
    /\ ret.instance = ret'.instance
    /\ ret.write_options = ret'.write_options

\* C38: a Link-mode Overwrite write of the graph the call before it wrote
\* leaves the store as that call left it: the same files with the same
\* bytes, the checksums in their links included; it returns the same path,
\* stores the same sequence of files and logs every one as overwritten.
C38_RepeatedOverwriteSameStore ==
    [][IsRepeatedWrite =>
         /\ files' = files
         /\ ret'.path = ret.path
         /\ ret'.trace = ret.trace
         /\ ret'.info.created_files = <<>>
         /\ ret'.info.kept_files = <<>>
         /\ ret'.info.overwritten_files
               = [i \in DOMAIN ret'.trace |-> ret'.trace[i].path]]_vars

\* an Overwrite write of a User whose Shovel links two values under one
\* name found every file of the graph in the store and left each path with
\* the bytes its last write of the call stored
C38_Witness ==
    /\ ret.op = "write_verbose"
    /\ ret.ok
    /\ ret.write_options.name_collisions = "Overwrite"
    /\ ret.instance.type = "User"
    /\ ~OneValuePerName(ret.instance)
    /\ Len(ret.trace) = 4
    /\ ret.info.created_files = <<>>
    /\ Len(ret.info.overwritten_files) = 4
    /\ files[ret.trace[2].path] = ret.trace[2].data
    /\ files[ret.trace[3].path] = ret.trace[3].data
    /\ files[ret.trace[4].path] = ret.trace[4].data
    /\ Cardinality(DOMAIN files) = 3
----------------------------------------------------------------------------
(* The probe loop of AdjustName taken one iteration at a time, on one      *)
(* thread: the write is entered on a Material whose canonical file exists, *)
(* each step of the loop tests one candidate path, and the write goes on   *)
(* to File::create once the loop has left.  Between calls the store is     *)
(* filled by whole AdjustName writes and thinned by removals.              *)

\* the candidate path of the loop at the counter
trial_file_path(instance, counter) ==
    [dir |-> type_name(instance),
     file |-> WithExt(instance.name \o Underscore \o Digits(counter))]

\* write_verbose_log and WriteContext::write up to `let mut counter = 0`,
\* the canonical file existing
ProbeEnter(instance, log) ==
    /\ ThreadIdle
    /\ exists(files, full_path_unchecked(type_name(instance), instance.name))
    /\ Cardinality(DOMAIN files) < MaxFiles
    /\ WRITE_CONTEXT' = WriteContext_new(AdjustLink, log)
    /\ RW_INFO' = set_log(RW_INFO, log)
    /\ threads' = [threads EXCEPT !.open[threads.running] =
                      [op |-> "probe", instance |-> instance,
                       write_options |-> AdjustLink, log |-> log,
                       doc |-> SerializeFields(WRITE_CONTEXT', instance,
                                               [files |-> files, rw |-> RW_INFO',
                                                fail |-> NoFail, trace |-> <<>>],
                                               1, EmptyMap).doc,
                       counter |-> 0]]
    /\ UNCHANGED <<files, cache, heap, READ_CONTEXT, ret>>

\* a loop step that tests the same candidate again
ProbeStep_stuck ==
    /\ ~ThreadIdle
    /\ threads.open[threads.running].op = "probe"
    /\ LET call == threads.open[threads.running]
           trial == trial_file_path(call.instance, call.counter)
       IN IF ~exists(files, trial)
          THEN \E c \in {[rw |-> log_created_file_path(RW_INFO, trial),
                          file_path |-> trial, early |-> FALSE]} :
                  /\ RW_INFO' = c.rw
                  /\ threads' = [threads EXCEPT !.open[threads.running] =
                                    [op |-> "create", instance |-> call.instance,
                                     write_options |-> call.write_options,
                                     log |-> call.log, c |-> c,
                                     doc |-> call.doc,
                                     trace |-> <<>>]]
          ELSE UNCHANGED <<RW_INFO, threads>>
    /\ UNCHANGED <<files, cache, heap, WRITE_CONTEXT, READ_CONTEXT, ret>>

\* one iteration of the loop: the candidate is built and tested; the loop
\* breaks when it does not exist, and the counter goes up by one otherwise
ProbeStep ==
    /\ ~ThreadIdle
    /\ threads.open[threads.running].op = "probe"
    /\ LET call == threads.open[threads.running]
           trial == trial_file_path(call.instance, call.counter)
       IN IF ~exists(files, trial)
          THEN \E c \in {[rw |-> log_created_file_path(RW_INFO, trial),
                          file_path |-> trial, early |-> FALSE]} :
                  /\ RW_INFO' = c.rw
                  /\ threads' = [threads EXCEPT !.open[threads.running] =
                                    [op |-> "create", instance |-> call.instance,
                                     write_options |-> call.write_options,
                                     log |-> call.log, c |-> c,
                                     doc |-> call.doc,
                                     trace |-> <<>>]]
          ELSE /\ threads' = [threads EXCEPT
                                 !.open[threads.running].counter = @ + 1]
               /\ UNCHANGED RW_INFO
    /\ UNCHANGED <<files, cache, heap, WRITE_CONTEXT, READ_CONTEXT, ret>>

NextY ==
    \/ \E instance \in AMaterials, log \in BOOLEAN : ProbeEnter(instance, log)
    \/ ProbeStep
    \/ WriteCreate
    \/ \E instance \in AMaterials :
          /\ ThreadIdle
          /\ WriteVerbose(instance, AdjustLink, NoFail)
          /\ Cardinality(DOMAIN files') <= MaxFiles
    \/ \E path \in DOMAIN files :
          /\ ThreadIdle
          /\ Remove(path.dir, SubSeq(path.file, 1, Len(path.file) - Len(Dot \o file_ext)),
                    FALSE)

\* the thread that is in the loop goes on running
SpecY ==
    /\ Init
    /\ [][NextY]_vars
    /\ WF_vars(ProbeStep)
    /\ WF_vars(WriteCreate)

\* the counters of the candidate paths of the instance that exist
Taken(instance) ==
    {i \in 0..MaxFiles : exists(files, trial_file_path(instance, i))}

InProbeLoop ==
    /\ ~ThreadIdle
    /\ threads.open[threads.running].op = "probe"

LeftProbeLoop ==
    /\ ~ThreadIdle
    /\ threads.open[threads.running].op = "create"

\* in the loop every candidate below the counter exists; out of the loop the
\* path chosen is the first candidate that does not exist, and the tests
\* made, one for each candidate up to it, are at most one more than the
\* candidates that exist
ProbeLoopBound ==
    /\ InProbeLoop =>
          LET call == threads.open[threads.running]
          IN /\ \A j \in 0..(call.counter - 1) : j \in Taken(call.instance)
             /\ call.counter <= Cardinality(Taken(call.instance))
    /\ LeftProbeLoop =>
          LET call == threads.open[threads.running]
          IN \E k \in 0..MaxFiles :
                /\ call.c.file_path = trial_file_path(call.instance, k)
                /\ k \notin Taken(call.instance)
                /\ \A j \in 0..(k - 1) : j \in Taken(call.instance)
                /\ k + 1 <= Cardinality(Taken(call.instance)) + 1
                /\ call.c.file_path
                     = AdjustProbe(files, type_name(call.instance),
                                   call.instance.name, 0)

\* C39: with no other writer, the probe loop of AdjustName always leaves:
\* it stops at the first counter k whose candidate <name>_<k> does not
\* exist, after k + 1 tests, which is at most the number of candidates
\* that exist plus one, and the write then comes to its end.
C39_ProbeLoopTerminates ==
    /\ []ProbeLoopBound
    /\ InProbeLoop ~> LeftProbeLoop
    /\ LeftProbeLoop ~> ThreadIdle

\* the loop has left at <name>_1 after it found <name>_0 taken
C39_Witness ==
    /\ LeftProbeLoop
    /\ threads.open[threads.running].c.file_path
          = trial_file_path(threads.open[threads.running].instance, 1)
    /\ exists(files, trial_file_path(threads.open[threads.running].instance, 0))
    /\ ~exists(files, trial_file_path(threads.open[threads.running].instance, 1))

====
